---------------------------- MODULE Spec2Model ----------------------------
(***************************************************************************)
(* A model of the coordinate containers, the orbital element converters    *)
(* and the Orbits representation cache of thor.                             *)
(*                                                                         *)
(* Floating point values are records: a finite number (an integer in the   *)
(* model's fixed-point units), the NaN sentinel, or +infinity.              *)
(***************************************************************************)
EXTENDS Integers, Sequences, FiniteSets, TLC

VARIABLES
    pc,        \* position inside Coordinates.__init__
    d,         \* index of the next positional argument of Coordinates.__init__
    coords,    \* the masked array built by _ingest_coordinate (or None)
    ingested,  \* the arguments q handed to _ingest_coordinate so far
    cov,       \* outcome of _ingest_covariance
    cart,      \* a Cartesian state vector, the input of the conversions
    t0,        \* the epoch passed with it
    mu,        \* the gravitational parameter passed with it
    kep,       \* the result of _cartesian_to_keplerian, <<>> before the call
    com,       \* the result of _cartesian_to_cometary, <<>> before the call
    back,      \* the last conversion back to a Cartesian state vector
    rows,      \* the N state vectors handed to a batched converter
    epochs,    \* t0, one epoch per row
    bmu,       \* mu of the batch
    out,       \* what the last batched converter returned
    origin,    \* the representation an Orbits object was constructed from
    self,      \* the Orbits object: _cartesian, _spherical, _keplerian, _classes
    transforms,\* the calls of transform_coordinates made so far, in order
    returned,  \* what the accesses of the representations returned, in order
    raced,     \* the representation two readers of an Orbits object race for
    readers,   \* the position and the locals of each reader inside the property
    container, \* a CartesianCoordinates container, the receiver of the calls
    called,    \* the last call made on the container and what it returned or raised
    elements,  \* a KeplerianCoordinates or CometaryCoordinates container
    converted, \* the last call on it and what it returned
    solver,    \* the Newton-Raphson loop of solve_kepler
    classCalls,\* the number of calls of calc_orbit_class made so far
    observed,  \* what the reads of Orbits.classes and the to_df calls returned, in order
    manifests, \* the JobManifest objects made by create, in order
    heap,      \* the list objects the manifests refer to, by address
    appended,  \* per manifest, the (orbit_id, task_id) pairs passed to append
    restored,  \* the last from_str(to_str()) result and the manifest it was made of
    args,      \* the codes, times and coordinates an Observers object is constructed from
    observers  \* the Observers object after __init__, or the exception __init__ raised

ingestVars == <<pc, d, coords, ingested, cov>>

keplerVars == <<cart, t0, mu, kep, com, back>>

batchVars == <<rows, epochs, bmu, out>>

orbitsVars == <<origin, self, transforms, returned>>

raceVars == <<raced, readers>>

frameVars == <<container, called>>

elementVars == <<elements, converted>>

solverVars == <<solver>>

classVars == <<classCalls, observed>>

jobVars == <<manifests, heap, appended, restored>>

observerVars == <<args, observers>>

vars == <<pc, d, coords, ingested, cov, cart, t0, mu, kep, com, back,
          rows, epochs, bmu, out, origin, self, transforms, returned,
          raced, readers,
          container, called,
          elements, converted,
          solver,
          classCalls, observed,
          manifests, heap, appended, restored,
          args, observers>>

---------------------------------------------------------------------------
(* Floating point values *)

Num(x) == [k |-> "num", v |-> x]
NaN == [k |-> "nan", v |-> 0]
Inf == [k |-> "inf", v |-> 0]

NInf == [k |-> "ninf", v |-> 0]

IsNan(x) == x.k = "nan"
IsNum(x) == x.k = "num"
IsInf(x) == x.k = "inf"

\* the sign of a value that is not NaN
Sgn(x) ==
    CASE x.k = "inf" -> 1
      [] x.k = "ninf" -> -1
      [] OTHER -> IF x.v > 0 THEN 1 ELSE IF x.v < 0 THEN -1 ELSE 0

\* +infinity or -infinity by sign
Signed(sg) == IF sg < 0 THEN NInf ELSE Inf

AbsInt(i) == IF i < 0 THEN -i ELSE i

\* the quotient of two integers; the model's inputs keep every quotient exact
ExactDiv(i, j) ==
    LET qt == AbsInt(i) \div AbsInt(j)
    IN  IF qt * AbsInt(j) = AbsInt(i)
        THEN (IF (i < 0) = (j < 0) THEN qt ELSE -qt)
        ELSE CHOOSE z \in {} : TRUE

FNeg(x) ==
    CASE x.k = "nan" -> NaN
      [] x.k = "inf" -> NInf
      [] x.k = "ninf" -> Inf
      [] OTHER -> Num(-x.v)

FAdd(x, y) ==
    IF IsNan(x) \/ IsNan(y) THEN NaN
    ELSE IF IsNum(x) /\ IsNum(y) THEN Num(x.v + y.v)
    ELSE IF IsNum(x) THEN y
    ELSE IF IsNum(y) THEN x
    ELSE IF x.k = y.k THEN x ELSE NaN

FSub(x, y) == FAdd(x, FNeg(y))

FMul(x, y) ==
    IF IsNan(x) \/ IsNan(y) THEN NaN
    ELSE IF IsNum(x) /\ IsNum(y) THEN Num(x.v * y.v)
    ELSE IF Sgn(x) = 0 \/ Sgn(y) = 0 THEN NaN
    ELSE Signed(Sgn(x) * Sgn(y))

FDiv(x, y) ==
    IF IsNan(x) \/ IsNan(y) THEN NaN
    ELSE IF IsNum(x) /\ IsNum(y)
         THEN (IF y.v = 0
               THEN (IF x.v = 0 THEN NaN ELSE Signed(Sgn(x)))
               ELSE Num(ExactDiv(x.v, y.v)))
    ELSE IF IsNum(x) THEN Num(0)
    ELSE IF IsNum(y) THEN Signed(Sgn(x) * (IF Sgn(y) < 0 THEN -1 ELSE 1))
    ELSE NaN

FAbs(x) ==
    CASE x.k = "nan" -> NaN
      [] x.k = "num" -> Num(AbsInt(x.v))
      [] OTHER -> Inf

\* the square root; the model's inputs keep every radicand a perfect square
FSqrt(x) ==
    CASE x.k = "nan" -> NaN
      [] x.k = "inf" -> Inf
      [] x.k = "ninf" -> NaN
      [] OTHER -> IF x.v < 0 THEN NaN
                  ELSE Num(CHOOSE r \in 0 .. x.v : r * r = x.v)

\* x < y and x > y of floating point values: False when either is NaN
FLt(x, y) ==
    IF IsNan(x) \/ IsNan(y) THEN FALSE
    ELSE IF IsNum(x) /\ IsNum(y) THEN x.v < y.v
    ELSE IF x.k = y.k THEN FALSE
    ELSE x.k = "ninf" \/ y.k = "inf"

FGt(x, y) == FLt(y, x)

---------------------------------------------------------------------------
(* Bounds *)

\* largest number of rows of an input array
MaxN == 2

---------------------------------------------------------------------------
(* coordinates.py: _ingest_coordinate *)

\* number of coordinate dimensions of a container
NDim == 6

Dims == 0 .. (NDim - 1)

\* coords = None
NoCoords == [exists |-> FALSE, N |-> 0, data |-> <<>>, mask |-> <<>>]

\* np.ma.zeros((N_, 6)) with the mask left unset
NewCoordsUnmasked(N_) ==
    [exists |-> TRUE, N |-> N_,
     data |-> [n \in 1 .. N_ |-> [j \in Dims |-> Num(0)]],
     mask |-> [n \in 1 .. N_ |-> [j \in Dims |-> FALSE]]]

\* np.ma.zeros((N_, 6)); coords.mask = 1
NewCoords(N_) ==
    [exists |-> TRUE, N |-> N_,
     data |-> [n \in 1 .. N_ |-> [j \in Dims |-> Num(0)]],
     mask |-> [n \in 1 .. N_ |-> [j \in Dims |-> TRUE]]]

\* coords[:, dd] = q_ alone: the masked assignment of an unmasked array
\* stores the values and clears the mask of the column
SetColumnNoNanMask(c, dd, q_) ==
    [c EXCEPT
       !.data = [n \in 1 .. c.N |-> [c.data[n] EXCEPT ![dd] = q_[n]]],
       !.mask = [n \in 1 .. c.N |-> [c.mask[n] EXCEPT ![dd] = FALSE]]]

\* coords[:, dd] = q_ ; coords.mask[:, dd] = np.where(np.isnan(q_), 1, 0)
SetColumn(c, dd, q_) ==
    [c EXCEPT
       !.data = [n \in 1 .. c.N |-> [c.data[n] EXCEPT ![dd] = q_[n]]],
       !.mask = [n \in 1 .. c.N |-> [c.mask[n] EXCEPT ![dd] = IsNan(q_[n])]]]

\* the length check is missing: numpy broadcasts an array of length 1 over
\* the column and raises for every other length that differs
IngestCoordinateNoCheck(q, dd, c) ==
    IF q.none
    THEN [raised |-> FALSE, coords |-> c]
    ELSE LET N_ == Len(q.vals)
             c1 == IF ~c.exists THEN NewCoords(N_) ELSE c
         IN  IF c.exists /\ c.N # N_ /\ N_ # 1
             THEN [raised |-> TRUE, coords |-> c]
             ELSE [raised |-> FALSE,
                   coords |-> SetColumn(c1, dd, [n \in 1 .. c1.N |-> q.vals[IF N_ = 1 THEN 1 ELSE n]])]

\* _ingest_coordinate(q, d, coords): the returned array, or ValueError raised
\* with the array as the call left it
IngestCoordinate(q, dd, c) ==
    IF q.none
    THEN [raised |-> FALSE, coords |-> c]
    ELSE LET N_ == Len(q.vals)
             c1 == IF ~c.exists THEN NewCoords(N_) ELSE c
         IN  IF c.exists /\ c.N # N_
             THEN [raised |-> TRUE, coords |-> c]
             ELSE [raised |-> FALSE, coords |-> SetColumn(c1, dd, q.vals)]

---------------------------------------------------------------------------
(* Inputs of Coordinates.__init__ *)

\* q = None
QNone == [none |-> TRUE, vals |-> <<>>]

\* an array of length L for dimension dd whose entries at the rows in nans are NaN
QArray(L, dd, nans) ==
    [none |-> FALSE,
     vals |-> [n \in 1 .. L |-> IF n \in nans THEN NaN ELSE Num(10 * dd + n)]]

NanPatterns(L) == {{}, {1}, {L}}

QChoices(dd) ==
    {QNone} \cup UNION {{QArray(L, dd, s) : s \in NanPatterns(L)} : L \in 1 .. MaxN}

---------------------------------------------------------------------------
(* coordinates.py: _ingest_covariance *)

\* coords.shape[1] - np.sum(coords.mask.all(axis=0)): the dimensions that are
\* not masked in every row
Axes(c) ==
    NDim - Cardinality({j \in Dims : \A n \in 1 .. c.N : c.mask[n][j]})

\* the number of unmasked dimensions of row n
RowAxes(c, n) == Cardinality({j \in Dims : ~c.mask[n][j]})

\* covariance.shape[1] != covariance.shape[2] != axes, Python's chained
\* comparison: (shape[1] != shape[2]) and (shape[2] != axes)
ShapeCheckFails(shape, axes) ==
    (shape[2] # shape[3]) /\ (shape[3] # axes)

\* covariance_[n][~covariance_[n].mask] = covariance[n].flatten(): numpy
\* assigns through a boolean index when the number of values equals the
\* number of selected entries, broadcasts a single value, and raises
\* ValueError otherwise
RowAssignFits(c, n, shape) ==
    LET values == shape[2] * shape[3]
        slots  == RowAxes(c, n) * RowAxes(c, n)
    IN  values = slots \/ values = 1

\* the mask the loop builds: row and column of every masked dimension of row n
MirrorMask(c) ==
    [n \in 1 .. c.N |->
        [i \in Dims |-> [j \in Dims |-> c.mask[n][i] \/ c.mask[n][j]]]]

\* a mask with no entry set
NoMask(N_) ==
    [n \in 1 .. N_ |-> [i \in Dims |-> [j \in Dims |-> FALSE]]]

NoCov == [status |-> "None", mask |-> <<>>, input |-> <<>>]

\* _ingest_covariance(coords, covariance): the exception raised or the mask
\* of the masked array returned
IngestCovariance(c, cv) ==
    IF ~c.exists
    THEN [status |-> "AttributeError", mask |-> <<>>]
    ELSE IF cv.shape[1] # c.N
    THEN [status |-> "ValueError", mask |-> <<>>]
    ELSE IF ShapeCheckFails(cv.shape, Axes(c))
    THEN [status |-> "ValueError", mask |-> <<>>]
    ELSE IF cv.masked /\ cv.shape[2] = cv.shape[3] /\ cv.shape[3] = NDim
    THEN [status |-> "returned", mask |-> cv.mask]
    ELSE IF \E n \in 1 .. c.N : ~RowAssignFits(c, n, cv.shape)
    THEN [status |-> "ValueError", mask |-> <<>>]
    ELSE [status |-> "returned", mask |-> MirrorMask(c)]

\* the sizes of the covariance matrices tried
CovDims == {1, 3, 4, NDim}

\* the covariance arrays offered to a container whose coordinates are c: plain
\* arrays of every shape, and masked arrays, whose mask is unset or, for
\* N x 6 x 6, mirrors the coordinate mask
CovChoices(c) ==
    LET shapes == {<<s0, s1, s2>> : s0 \in 1 .. MaxN, s1 \in CovDims, s2 \in CovDims}
    IN  {[masked |-> m, shape |-> sh, mask |-> NoMask(sh[1])] :
             m \in BOOLEAN, sh \in shapes}
        \cup (IF c.exists
              THEN {[masked |-> TRUE, shape |-> <<c.N, NDim, NDim>>, mask |-> MirrorMask(c)]}
              ELSE {})

---------------------------------------------------------------------------
(* coordinates.py: Coordinates.__init__ *)

\* the variables of the conversions, unused while a container is built
KeplerIdle ==
    /\ cart = <<>> /\ t0 = 0 /\ mu = 0
    /\ kep = <<>> /\ com = <<>> /\ back = [fn |-> "none", kep6 |-> <<>>,
                                            nu |-> [solved |-> FALSE, nu |-> NaN],
                                            cart |-> <<>>]

\* the variables of the batched converters, unused elsewhere
BatchIdle ==
    /\ rows = <<>> /\ epochs = <<>> /\ bmu = 0
    /\ out = [fn |-> "none", status |-> "none", rows |-> <<>>]

\* the variables of the Orbits object, unused elsewhere
OrbitsIdle ==
    /\ origin = "none" /\ self = <<>> /\ transforms = <<>> /\ returned = <<>>

\* the variables of two racing readers of an Orbits object, unused elsewhere
RaceIdle ==
    /\ raced = "none" /\ readers = <<>>

\* the variables of the CartesianCoordinates container, unused elsewhere
FrameIdle ==
    /\ container = <<>>
    /\ called = [fn |-> "none", status |-> "none", same |-> FALSE, value |-> <<>>]

\* no element container is in use
ElementsIdle ==
    /\ elements = [kind |-> "none", values |-> <<>>, mu |-> 0, covariances |-> FALSE,
                   times |-> <<>>, origin |-> "none", frame |-> "none"]
    /\ converted = [fn |-> "none", value |-> <<>>]

\* no solver call is running
SolverIdle ==
    /\ solver = [pc |-> "idle", max_iter |-> 0, tol |-> 0, iter |-> 0, residual |-> 0]

\* no class was computed and nothing read
ClassesIdle ==
    /\ classCalls = 0 /\ observed = <<>>

\* no job manifest was made
JobsIdle ==
    /\ manifests = <<>> /\ heap = <<>> /\ appended = <<>>
    /\ restored = [of |-> 0]

\* no Observers object was constructed
ObserversIdle ==
    /\ args = <<>> /\ observers = <<>>

InitIngest ==
    /\ pc = "ingest"
    /\ d = 0
    /\ coords = NoCoords
    /\ ingested = <<>>
    /\ cov = NoCov
    /\ KeplerIdle
    /\ BatchIdle
    /\ OrbitsIdle
    /\ RaceIdle
    /\ FrameIdle
    /\ ElementsIdle
    /\ SolverIdle
    /\ ClassesIdle
    /\ JobsIdle
    /\ ObserversIdle

\* one pass of the loop: coords = _ingest_coordinate(q, d, coords)
Ingest ==
    /\ pc = "ingest"
    /\ d < NDim
    /\ \E q \in QChoices(d) :
         LET r == IngestCoordinate(q, d, coords)
         IN  /\ ingested' = Append(ingested, q)
             /\ coords' = r.coords
             /\ IF r.raised
                THEN pc' = "raised" /\ d' = d
                ELSE /\ d' = d + 1
                     /\ pc' = IF d + 1 = NDim THEN "covariances" ELSE "ingest"
    /\ UNCHANGED cov
    /\ UNCHANGED <<keplerVars, batchVars, orbitsVars, raceVars, frameVars, elementVars, solverVars, classVars, jobVars, observerVars>>

\* covariances is None: self._covariances = None
SkipCovariance ==
    /\ pc = "covariances"
    /\ pc' = "done"
    /\ UNCHANGED <<d, coords, ingested, cov>>
    /\ UNCHANGED <<keplerVars, batchVars, orbitsVars, raceVars, frameVars, elementVars, solverVars, classVars, jobVars, observerVars>>

\* self._covariances = _ingest_covariance(coords, covariances)
Covariance ==
    /\ pc = "covariances"
    /\ \E cv \in CovChoices(coords) :
         LET r == IngestCovariance(coords, cv)
         IN  /\ cov' = [status |-> r.status, mask |-> r.mask, input |-> cv]
             /\ pc' = IF r.status = "returned" THEN "done" ELSE "covariance_raised"
    /\ UNCHANGED <<d, coords, ingested>>
    /\ UNCHANGED <<keplerVars, batchVars, orbitsVars, raceVars, frameVars, elementVars, solverVars, classVars, jobVars, observerVars>>

NextIngest == Ingest \/ SkipCovariance \/ Covariance

Spec == InitIngest /\ [][NextIngest]_vars

---------------------------------------------------------------------------
(* Claims about the coordinate container *)

\* the arguments whose call returned: all of them, but the last one when it raised
Accepted ==
    IF pc = "raised" THEN SubSeq(ingested, 1, Len(ingested) - 1) ELSE ingested

\* C1: _ingest_covariance raises ValueError whenever shape[1] or shape[2] of
\* the covariance differs from the number of coordinate dimensions that are
\* not fully masked, and returns no array then.
C1_MismatchRaisesValueError ==
    (/\ cov.status # "None"
     /\ coords.exists
     /\ (cov.input.shape[2] # Axes(coords) \/ cov.input.shape[3] # Axes(coords)))
    => cov.status = "ValueError"

\* C2: in every covariance array _ingest_covariance returns, entry [n, i, j] is
\* masked exactly when dimension i or dimension j of coordinate row n is masked.
C2_CovarianceMaskMirrorsCoords ==
    cov.status = "returned" =>
        \A n \in 1 .. coords.N : \A i \in Dims : \A j \in Dims :
            cov.mask[n][i][j] <=> (coords.mask[n][i] \/ coords.mask[n][j])

\* the last call of _ingest_coordinate got an array whose length differs from
\* the number of rows of the existing array c
LengthMismatch(c, q) == ~q.none /\ c.exists /\ Len(q.vals) # c.N

\* C3: a call of _ingest_coordinate with an array whose length differs from the
\* rows of the existing array raises ValueError and leaves the array as it was.
C3_LengthMismatchRaisesUnchanged ==
    [][(ingested' # ingested /\ LengthMismatch(coords, ingested'[Len(ingested')]))
         => (pc' = "raised" /\ coords' = coords)]_vars

C3_Witness ==
    /\ pc = "raised"
    /\ Len(ingested) > 1
    /\ LengthMismatch(coords, ingested[Len(ingested)])

\* C4: every dimension ingested so far holds, in each row, the value of its
\* array, masked exactly where that value is NaN, whatever was ingested after it.
C4_ColumnsHoldIngestedArrays ==
    \A k \in 1 .. Len(Accepted) :
        ~Accepted[k].none =>
            \A n \in 1 .. coords.N :
                /\ coords.data[n][k - 1] = Accepted[k].vals[n]
                /\ coords.mask[n][k - 1] <=> IsNan(Accepted[k].vals[n])

C4_Witness ==
    /\ pc = "covariances"
    /\ coords.N = MaxN
    /\ \A k \in 1 .. NDim : ~ingested[k].none
    /\ IsNan(ingested[1].vals[1]) /\ ~IsNan(ingested[1].vals[MaxN])
    /\ ~IsNan(ingested[NDim].vals[1]) /\ IsNan(ingested[NDim].vals[MaxN])

\* C5: a coordinate array, once it exists, has exactly 6 dimensions, and every
\* dimension for which no array was ingested is masked in every row.
C5_SixDimsUnusedMasked ==
    coords.exists =>
        \A n \in 1 .. coords.N :
            /\ DOMAIN coords.data[n] = 0 .. 5
            /\ DOMAIN coords.mask[n] = 0 .. 5
            /\ \A j \in 0 .. 5 :
                  (j >= Len(Accepted) \/ Accepted[j + 1].none) => coords.mask[n][j]

C5_Witness ==
    /\ pc = "done"
    /\ coords.exists
    /\ Cardinality({k \in 1 .. NDim : ingested[k].none}) = 2
    /\ ingested[1].none
    /\ \A n \in 1 .. coords.N : \A j \in Dims : ingested[j + 1].none <=> coords.mask[n][j]

---------------------------------------------------------------------------
(* keplerian.py, cometary.py: fixed-point units                            *)
(*                                                                         *)
(* Angles in radians are integers in units of pi / 4, so that pi is Pi and *)
(* jnp.degrees multiplies by 180 / Pi = 45.  The eccentricity is an        *)
(* integer in units of 1 / One.  Lengths, times and mu are integers.       *)
(*                                                                         *)
(* A Cartesian state vector is written <<p, e, i, raan, ap, nu>>: the      *)
(* conic it lies on and the place on it, the quantities lines 104-148 of   *)
(* keplerian.py extract from (r, v) and lines 365-407 build (r, v) from.   *)
(* A vector with a NaN component is the all-NaN vector.                    *)

\* jnp.pi
Pi == 4

TwoPi == 2 * Pi

\* the eccentricity 1.0
One == 2

\* jnp.degrees and jnp.radians
Degrees(x) == FMul(x, Num(180 \div Pi))
Radians(x) == FDiv(x, Num(180 \div Pi))

\* v[k] with Python's indices: from 0, negative ones from the end
PyAt(v, k) == IF k < 0 THEN v[Len(v) + k + 1] ELSE v[k + 1]

\* v[jnp.array(idx)]
PyTake(v, idx) == [j \in 1 .. Len(idx) |-> PyAt(v, idx[j])]

NaNVector(len) == [j \in 1 .. len |-> NaN]

\* e < 1.0, e != 1.0 and e == 0.0 of a floating point eccentricity
ELtOne(e) == FLt(e, Num(One))
ENeOne(e) == ~(IsNum(e) /\ e.v = One)
EIsZero(e) == IsNum(e) /\ e.v = 0

\* 1 - e, 1 + e and 1 - e**2 times x
MulOneMinusE(x, e) == FDiv(FMul(x, FSub(Num(One), e)), Num(One))
MulOnePlusE(x, e) == FDiv(FMul(x, FAdd(Num(One), e)), Num(One))
MulOneMinusESq(x, e) ==
    FDiv(FMul(x, FSub(Num(One * One), FMul(e, e))), Num(One * One))

---------------------------------------------------------------------------
(* dynamics/kepler.py: the anomaly relations on the model's grid *)

\* calc_mean_anomaly(nu, e): NaN for an undefined true anomaly, the
\* elliptical relation for e < 1 and the open-orbit relation otherwise
CalcMeanAnomaly(nu, e) ==
    IF IsNan(nu) \/ IsNan(e) THEN NaN
    ELSE IF EIsZero(e) THEN nu
    ELSE IF ELtOne(e)
         THEN (CASE nu.v = 0 -> Num(0)
                 [] nu.v = 3 -> Num(2)
                 [] nu.v = 4 -> Num(4)
                 [] nu.v = 5 -> Num(6)
                 [] OTHER -> NaN)
         ELSE (CASE nu.v = 0 -> Num(0)
                 [] nu.v = 1 -> Num(8)
                 [] nu.v = 7 -> Num(-4)
                 [] OTHER -> NaN)

\* solve_kepler(e, M, max_iter, tol): the true anomaly of mean anomaly M,
\* the inverse of calc_mean_anomaly; nu = M for e = 0
SolveKepler(e, M, max_iter, tol) ==
    IF IsNan(M) \/ IsNan(e) \/ ~IsNum(M) THEN NaN
    ELSE IF EIsZero(e) THEN M
    ELSE IF ELtOne(e)
         THEN (CASE M.v = 0 -> Num(0)
                 [] M.v = 2 -> Num(3)
                 [] M.v = 4 -> Num(4)
                 [] M.v = 6 -> Num(5)
                 [] M.v = 8 -> Num(0)
                 [] OTHER -> NaN)
         ELSE (CASE M.v = 0 -> Num(0)
                 [] M.v = 8 -> Num(1)
                 [] M.v = -4 -> Num(7)
                 [] OTHER -> NaN)

---------------------------------------------------------------------------
(* keplerian.py: _cartesian_to_keplerian *)

\* the branch taken for every M at or above pi
TimingDtFromPi(M, e, n, P) ==
    IF (FGt(M, Num(Pi)) \/ M = Num(Pi)) /\ ELtOne(e)
    THEN FSub(P, FDiv(M, n))
    ELSE FNeg(FDiv(M, n))

\* dtp = jnp.where((M > jnp.pi) & (e < 1.0), P - M / n, - M / n)
TimingDt(M, e, n, P) ==
    IF FGt(M, Num(Pi)) /\ ELtOne(e)
    THEN FSub(P, FDiv(M, n))
    ELSE FNeg(FDiv(M, n))

\* sme = v_mag**2 / 2 - mu / r_mag of the state vector c: -mu (1 - e**2) / (2 p)
SpecificEnergy(c, mu_) ==
    FDiv(MulOneMinusESq(Num(-mu_), c[2]), FMul(Num(2), c[1]))

\* n = lax.cond(e != 1.0, sqrt(mu / |a|**3), sqrt(mu / (2 q**3)))
MeanMotion(a, q, e, mu_) ==
    IF ENeOne(e)
    THEN FSqrt(FDiv(Num(mu_), FMul(FAbs(a), FMul(FAbs(a), FAbs(a)))))
    ELSE FSqrt(FDiv(Num(mu_), FMul(Num(2), FMul(q, FMul(q, q)))))

\* n_mag = 0 of line 119: the angular momentum lies along the z-axis, so the
\* quotients of lines 136 and 141 are 0 / 0
NodeUndefined(i) == IsNum(i) /\ i.v % Pi = 0

\* the true anomaly kept for a circular orbit
TrueAnomalyKept(e, nu) == nu

\* nu = jnp.where(e == 0.0, jnp.nan, nu)
TrueAnomaly(e, nu) == IF EIsZero(e) THEN NaN ELSE nu

\* a (1 - e) for every eccentricity
PeriapsisDistanceFromA(a, e, p) == MulOneMinusE(a, e)

\* q = jnp.where(e != 1.0, a * (1 - e), p / 2)
PeriapsisDistance(a, e, p) ==
    IF ENeOne(e) THEN MulOneMinusE(a, e) ELSE FDiv(p, Num(2))

\* 2 pi / n for every eccentricity
OrbitalPeriodClosed(e, n) == FDiv(Num(TwoPi), n)

\* P = lax.cond(e < 1.0, lambda n: 2*jnp.pi / n, lambda n: jnp.inf, n)
OrbitalPeriod(e, n) == IF ELtOne(e) THEN FDiv(Num(TwoPi), n) ELSE Inf

\* _cartesian_to_keplerian(coords_cartesian, t0, mu): the 13 components
\* a, p, q, Q, e, i, raan, ap, M, nu, n, P, tp
CartesianToKeplerian(c, t0_, mu_) ==
    LET p    == c[1]
        e    == c[2]
        i    == c[3]
        raan == IF NodeUndefined(i) THEN NaN ELSE c[4]
        ap   == IF EIsZero(e) \/ NodeUndefined(i) THEN NaN ELSE c[5]
        nu   == TrueAnomaly(e, c[6])
        sme  == SpecificEnergy(c, mu_)
        a    == IF ENeOne(e) THEN FDiv(Num(mu_), FMul(Num(-2), sme)) ELSE NaN
        q    == PeriapsisDistance(a, e, p)
        Q    == IF ELtOne(e) THEN MulOnePlusE(a, e) ELSE Inf
        M    == CalcMeanAnomaly(nu, e)
        n    == MeanMotion(a, q, e, mu_)
        P    == OrbitalPeriod(e, n)
        dtp  == TimingDt(M, e, n, P)
        tp   == FAdd(Num(t0_), dtp)
    IN  <<a, p, q, Q, e, Degrees(i), Degrees(raan), Degrees(ap),
          Degrees(M), Degrees(nu), Degrees(n), P, tp>>

\* _cartesian_to_keplerian6: coords_keplerian[jnp.array([0, 4, 5, 6, 7, 8])]
CartesianToKeplerian6(c, t0_, mu_) ==
    PyTake(CartesianToKeplerian(c, t0_, mu_), <<0, 4, 5, 6, 7, 8>>)

---------------------------------------------------------------------------
(* cometary.py: _cartesian_to_cometary *)

\* the components q, e, i, raan, ap, tp of the 13-vector, by name
CometaryIndicesByName == <<2, 4, 5, 6, 7, 12>>

\* the index array of line 88
CometaryIndices == <<1, 2, 3, 4, 5, -1>>

\* _cartesian_to_cometary(coords_cartesian, t0, mu)
CartesianToCometary(c, t0_, mu_) ==
    PyTake(CartesianToKeplerian(c, t0_, mu_), CometaryIndices)

---------------------------------------------------------------------------
(* keplerian.py: _keplerian_to_cartesian *)

\* solver arguments, passed through to solve_kepler
MaxIter == 100

\* the solver called for every eccentricity
TrueAnomalyAlwaysSolved(e, M, max_iter, tol) ==
    [solved |-> TRUE, nu |-> SolveKepler(e, M, max_iter, tol)]

\* nu = lax.cond(e != 1.0, solve_kepler(e, M, max_iter, tol), jnp.nan): the
\* branch taken and its value
TrueAnomalyFromM(e, M, max_iter, tol) ==
    IF ENeOne(e)
    THEN [solved |-> TRUE, nu |-> SolveKepler(e, M, max_iter, tol)]
    ELSE [solved |-> FALSE, nu |-> NaN]

\* _keplerian_to_cartesian(coords_keplerian, mu, max_iter, tol): the state
\* vector of the elements a, e, i, raan, ap, M (angles in degrees)
KeplerianToCartesian(k, mu_, max_iter, tol) ==
    LET a    == k[1]
        e    == k[2]
        i    == Radians(k[3])
        raan == Radians(k[4])
        ap   == Radians(k[5])
        M    == Radians(k[6])
        p    == MulOneMinusESq(a, e)
        nu   == TrueAnomalyFromM(e, M, max_iter, tol).nu
        c    == <<p, e, i, raan, ap, nu>>
    IN  IF \E j \in 1 .. 6 : ~IsNum(c[j]) THEN NaNVector(6) ELSE c

---------------------------------------------------------------------------
(* cometary.py: _cometary_to_cartesian *)

\* M = jnp.where(dtp < 0, 2 pi * -dtp / P, 2 pi * (P - dtp) / P)
InverseTimingM(dtp, P) ==
    IF FLt(dtp, Num(0))
    THEN FDiv(FMul(Num(TwoPi), FNeg(dtp)), P)
    ELSE FDiv(FMul(Num(TwoPi), FSub(P, dtp)), P)

\* lines 187-208: the Keplerian elements handed to _keplerian_to_cartesian
CometaryToKeplerian(cm, t0_, mu_) ==
    LET q    == cm[1]
        e    == cm[2]
        i    == cm[3]
        raan == cm[4]
        ap   == cm[5]
        tp   == cm[6]
        a    == FDiv(FMul(q, Num(One)), FSub(Num(One), e))
        n    == FSqrt(FDiv(Num(mu_), FMul(FAbs(a), FMul(FAbs(a), FAbs(a)))))
        P    == FDiv(Num(TwoPi), n)
        dtp  == FSub(tp, Num(t0_))
        M    == Degrees(InverseTimingM(dtp, P))
    IN  <<a, e, i, raan, ap, M>>

\* _cometary_to_cartesian(coords_cometary, t0, mu, max_iter, tol)
CometaryToCartesian(cm, t0_, mu_, max_iter, tol) ==
    KeplerianToCartesian(CometaryToKeplerian(cm, t0_, mu_), mu_, max_iter, tol)

---------------------------------------------------------------------------
(* The single-element conversions applied to one state vector *)

\* the orbits tried: semi-latus rectum, eccentricity and true anomaly of
\* a circular, an elliptical, a parabolic and a hyperbolic orbit of size s
OrbitShapes(s) ==
    {<<s, 0, 0>>}
    \cup {<<(3 * s) \div 4, 1, nu>> : nu \in {0, 3, 4, 5}}
    \cup {<<s, 2, nu>> : nu \in {0, 1, 7}}
    \cup {<<(5 * s) \div 4, 3, nu>> : nu \in {0, 1, 7}}

\* sizes of the orbits and the gravitational parameters tried with each
Sizes == {4, 16}
Mus(s) == IF s = 4 THEN {64, 256} ELSE {4096, 16384}

Epochs == {0, 10}

\* the state vector of a shape: inclination, node and periapsis are fixed
StateVector(sh) == <<Num(sh[1]), Num(sh[2]), Num(1), Num(3), Num(5), Num(sh[3])>>

\* the state vector of a shape in the x-y plane: its angular momentum lies
\* along the z-axis, the periapsis at longitude 5
EquatorialVector(sh) ==
    <<Num(sh[1]), Num(sh[2]), Num(0), Num(0), Num(5), Num(sh[3])>>

NoBack ==
    [fn |-> "none", kep6 |-> <<>>, nu |-> [solved |-> FALSE, nu |-> NaN],
     cart |-> <<>>]

IngestIdle ==
    /\ pc = "idle" /\ d = 0 /\ coords = NoCoords /\ ingested = <<>> /\ cov = NoCov

InitKepler ==
    /\ \E s \in Sizes :
         /\ mu \in Mus(s)
         /\ cart \in {StateVector(sh) : sh \in OrbitShapes(s)}
                     \cup {EquatorialVector(sh) : sh \in OrbitShapes(s)}
    /\ t0 \in Epochs
    /\ kep = <<>>
    /\ com = <<>>
    /\ back = NoBack
    /\ IngestIdle
    /\ BatchIdle
    /\ OrbitsIdle
    /\ RaceIdle
    /\ FrameIdle
    /\ ElementsIdle
    /\ SolverIdle
    /\ ClassesIdle
    /\ JobsIdle
    /\ ObserversIdle

\* coords_keplerian = _cartesian_to_keplerian(coords_cartesian, t0, mu)
DoCartesianToKeplerian ==
    /\ kep = <<>>
    /\ kep' = CartesianToKeplerian(cart, t0, mu)
    /\ UNCHANGED <<cart, t0, mu, com, back>>
    /\ UNCHANGED <<ingestVars, batchVars, orbitsVars, raceVars, frameVars, elementVars, solverVars, classVars, jobVars, observerVars>>

\* coords_cometary = _cartesian_to_cometary(coords_cartesian, t0, mu)
DoCartesianToCometary ==
    /\ com = <<>>
    /\ com' = CartesianToCometary(cart, t0, mu)
    /\ UNCHANGED <<cart, t0, mu, kep, back>>
    /\ UNCHANGED <<ingestVars, batchVars, orbitsVars, raceVars, frameVars, elementVars, solverVars, classVars, jobVars, observerVars>>

\* _keplerian_to_cartesian of the six fundamental elements of the orbit
DoKeplerianToCartesian ==
    /\ kep # <<>>
    /\ LET k6 == PyTake(kep, <<0, 4, 5, 6, 7, 8>>)
       IN  back' = [fn |-> "keplerian", kep6 |-> k6,
                    nu |-> TrueAnomalyFromM(k6[2], Radians(k6[6]), MaxIter, 0),
                    cart |-> KeplerianToCartesian(k6, mu, MaxIter, 0)]
    /\ UNCHANGED <<cart, t0, mu, kep, com>>
    /\ UNCHANGED <<ingestVars, batchVars, orbitsVars, raceVars, frameVars, elementVars, solverVars, classVars, jobVars, observerVars>>

\* _cometary_to_cartesian of the cometary elements q, e, i, raan, ap, tp of
\* the orbit
DoCometaryToCartesian ==
    /\ kep # <<>>
    /\ LET cm == PyTake(kep, CometaryIndicesByName)
           k6 == CometaryToKeplerian(cm, t0, mu)
       IN  back' = [fn |-> "cometary", kep6 |-> k6,
                    nu |-> TrueAnomalyFromM(k6[2], Radians(k6[6]), MaxIter, 0),
                    cart |-> CometaryToCartesian(cm, t0, mu, MaxIter, 0)]
    /\ UNCHANGED <<cart, t0, mu, kep, com>>
    /\ UNCHANGED <<ingestVars, batchVars, orbitsVars, raceVars, frameVars, elementVars, solverVars, classVars, jobVars, observerVars>>

\* the elements a, e, i, raan, ap, M of closed orbits a caller may hand to
\* _keplerian_to_cartesian: circular and elliptical, inclined and not, of
\* semi-major axis s
ClosedElements(s) ==
    {<<Num(s), Num(e), Num(i), Num(135), Num(225), Num(M)>> :
        e \in {0, 1}, i \in {0, 45}, M \in {0, 90, 180, 270}}

\* _keplerian_to_cartesian of elements given by the caller
DoElementsToCartesian ==
    /\ back.fn = "none"
    /\ \E s \in Sizes :
         /\ mu \in Mus(s)
         /\ \E k6 \in ClosedElements(s) :
              back' = [fn |-> "elements", kep6 |-> k6,
                       nu |-> TrueAnomalyFromM(k6[2], Radians(k6[6]), MaxIter, 0),
                       cart |-> KeplerianToCartesian(k6, mu, MaxIter, 0)]
    /\ UNCHANGED <<cart, t0, mu, kep, com>>
    /\ UNCHANGED <<ingestVars, batchVars, orbitsVars, raceVars, frameVars, elementVars, solverVars, classVars, jobVars, observerVars>>

NextKepler ==
    \/ DoCartesianToKeplerian
    \/ DoCartesianToCometary
    \/ DoKeplerianToCartesian
    \/ DoCometaryToCartesian
    \/ DoElementsToCartesian

SpecKepler == InitKepler /\ [][NextKepler]_vars

---------------------------------------------------------------------------
(* Claims about the single-element conversions *)

\* C6: tp = t0 + dt with dt = P - M/n exactly when M > pi and e < 1, and
\* dt = -M/n in every other case: at M = pi, for e >= 1 whatever M is, and
\* for an undefined M (read off the 13 returned components, M and n in degrees).
C6_TimingRule ==
    kep # <<>> =>
        LET e  == kep[5]
            M  == kep[9]
            n  == kep[11]
            P  == kep[12]
            tp == kep[13]
            past == FSub(Num(t0), FDiv(M, n))
        IN  /\ (IsNum(M) /\ M.v > 180 /\ e.v < One) => tp = FAdd(past, P)
            /\ (IsNum(M) /\ M.v = 180) => tp = past
            /\ (IsNum(M) /\ M.v < 180) => tp = past
            /\ (IsNum(M) /\ e.v >= One) => tp = past
            /\ IsNan(M) => IsNan(tp)

\* an elliptical orbit exactly at M = pi, whose periapsis was half a period ago
C6_Witness ==
    /\ kep # <<>>
    /\ kep[5] = Num(1)
    /\ kep[9] = Num(180)
    /\ kep[13] = FSub(Num(t0), FDiv(kep[12], Num(2)))

\* C7: for 0 <= e < 1 and M in [0, 2 pi), the mean anomaly _cometary_to_cartesian
\* recovers from the tp of _cartesian_to_keplerian is M again.
C7_InverseTimingRecoversM ==
    (/\ back.fn = "cometary"
     /\ kep[5].v < One
     /\ IsNum(kep[9]) /\ kep[9].v >= 0 /\ kep[9].v < 360)
    => back.kep6[6] = kep[9]

\* C8: _cartesian_to_cometary returns q, e, i, raan, ap, tp of
\* _cartesian_to_keplerian for the same input, in that order.
C8_CometaryComponents ==
    com # <<>> =>
        LET k == CartesianToKeplerian(cart, t0, mu)
        IN  /\ Len(com) = 6
            /\ com[1] = k[3]
            /\ com[2] = k[5]
            /\ com[3] = k[6]
            /\ com[4] = k[7]
            /\ com[5] = k[8]
            /\ com[6] = k[13]

\* C16: in the 13 components the semi-major axis is NaN exactly when e = 1
\* and mu / (-2 sme) for every other e; the periapsis distance is p / 2 when
\* e = 1 and a (1 - e) otherwise, a number in both cases.
C16_SemiMajorAxisAndPeriapsis ==
    kep # <<>> =>
        LET a == kep[1]
            p == kep[2]
            q == kep[3]
            e == kep[5]
        IN  /\ IsNan(a) <=> e = Num(One)
            /\ e # Num(One) =>
                  /\ a = FDiv(Num(mu), FMul(Num(-2), SpecificEnergy(cart, mu)))
                  /\ q = MulOneMinusE(a, e)
            /\ e = Num(One) => q = FDiv(p, Num(2))
            /\ IsNum(q)

\* a parabolic orbit: no semi-major axis, periapsis at half the semi-latus
\* rectum
C16_Witness ==
    /\ kep # <<>>
    /\ kep[5] = Num(One)
    /\ IsNan(kep[1])
    /\ IsNum(kep[3]) /\ 2 * kep[3].v = kep[2].v

\* C17: in the 13 components P and Q are +infinity exactly when e >= 1; for
\* e < 1, P = 2 pi / n and Q = a (1 + e), both finite (n in degrees).
C17_PeriodAndApoapsis ==
    kep # <<>> =>
        LET a == kep[1]
            Q == kep[4]
            e == kep[5]
            n == Radians(kep[11])
            P == kep[12]
        IN  /\ P = Inf <=> e.v >= One
            /\ Q = Inf <=> e.v >= One
            /\ e.v < One =>
                  /\ P = FDiv(Num(TwoPi), n) /\ IsNum(P)
                  /\ Q = MulOnePlusE(a, e) /\ IsNum(Q)

\* a hyperbolic orbit: its mean motion is a number, its period and apoapsis
\* are not
C17_Witness ==
    /\ kep # <<>>
    /\ kep[5].v > One
    /\ IsNum(kep[11])
    /\ kep[12] = Inf /\ kep[4] = Inf

C20_ParabolicSkipsSolver ==
    back.fn = "keplerian" =>
        LET e == back.kep6[2]
            M == Radians(back.kep6[6])
        IN  /\ e = Num(One) =>
                  /\ ~back.nu.solved
                  /\ IsNan(back.nu.nu)
            /\ e # Num(One) =>
                  /\ back.nu.solved
                  /\ back.nu.nu = SolveKepler(e, M, MaxIter, 0)
            /\ Len(back.cart) = 6

\* the elements of a parabolic orbit, converted back: no solver call, six
\* NaN components
C20_Witness ==
    /\ back.fn = "keplerian"
    /\ back.kep6[2] = Num(One)
    /\ ~back.nu.solved
    /\ back.cart = NaNVector(6)

\* C22: for elements a, e, i, raan, ap, M with 0 <= e < 1,
\* _cartesian_to_keplerian6 of _keplerian_to_cartesian of the elements is the
\* six elements again.
C22_KeplerianRoundTrip ==
    (back.fn = "elements" /\ back.kep6[2].v < One) =>
        CartesianToKeplerian6(back.cart, t0, mu) = back.kep6

\* C24: for a hyperbolic orbit (e > 1) the mean anomaly _cometary_to_cartesian
\* hands on is M = -n (tp - t0), whatever the sign of tp - t0 (M in degrees
\* in the elements, n = sqrt(mu / |a|^3)).
C24_HyperbolicInverseTiming ==
    (back.fn = "cometary" /\ kep[5].v > One) =>
        LET a  == back.kep6[1]
            n  == FSqrt(FDiv(Num(mu), FMul(FAbs(a), FMul(FAbs(a), FAbs(a)))))
            tp == kep[13]
        IN  Radians(back.kep6[6]) = FNeg(FMul(n, FSub(tp, Num(t0))))

---------------------------------------------------------------------------
(* keplerian.py, cometary.py: the batched converters *)

\* the widths of the output arrays the batched converters allocate
KeplerianBatchWidth == 11
CartesianBatchWidth == 6
CometaryBatchWidth == 6

\* out = zeros((N, width)); for i in range(N): out = out.at[i].set(results[i]).
\* Setting a row to a vector of another length is a shape error.
BatchApply(N, width, results) ==
    IF \E i \in 1 .. N : Len(results[i]) # width
    THEN [status |-> "error", rows |-> <<>>]
    ELSE [status |-> "ok", rows |-> [i \in 1 .. N |-> results[i]]]

\* cartesian_to_keplerian(coords_cartesian, t0, mu)
CartesianToKeplerianBatch(cs, ts, mu_) ==
    BatchApply(Len(cs), KeplerianBatchWidth,
               [i \in 1 .. Len(cs) |-> CartesianToKeplerian(cs[i], ts[i], mu_)])

\* keplerian_to_cartesian(coords_keplerian, mu, max_iter, tol)
KeplerianToCartesianBatch(ks, mu_, max_iter, tol) ==
    BatchApply(Len(ks), CartesianBatchWidth,
               [i \in 1 .. Len(ks) |-> KeplerianToCartesian(ks[i], mu_, max_iter, tol)])

\* cartesian_to_cometary(coords_cartesian, t0, mu)
CartesianToCometaryBatch(cs, ts, mu_) ==
    BatchApply(Len(cs), CometaryBatchWidth,
               [i \in 1 .. Len(cs) |-> CartesianToCometary(cs[i], ts[i], mu_)])

\* cometary_to_cartesian(coords_cometary, t0, mu, max_iter, tol)
CometaryToCartesianBatch(cms, ts, mu_, max_iter, tol) ==
    BatchApply(Len(cms), CartesianBatchWidth,
               [i \in 1 .. Len(cms) |->
                   CometaryToCartesian(cms[i], ts[i], mu_, max_iter, tol)])

\* the state vectors a batch is made of: orbits of size 4 of every regime
BatchVectors ==
    {StateVector(sh) : sh \in {<<4, 0, 0>>, <<3, 1, 0>>, <<3, 1, 3>>, <<4, 2, 1>>, <<5, 3, 7>>}}

\* the Keplerian and the cometary elements of the rows, the inputs of the
\* converters back to Cartesian
KeplerianRows == [i \in 1 .. Len(rows) |-> CartesianToKeplerian6(rows[i], epochs[i], bmu)]
CometaryRows ==
    [i \in 1 .. Len(rows) |->
        PyTake(CartesianToKeplerian(rows[i], epochs[i], bmu), CometaryIndicesByName)]

InitBatch ==
    /\ \E N \in 1 .. MaxN :
         /\ rows \in [1 .. N -> BatchVectors]
         /\ epochs = [i \in 1 .. N |-> 10 * i]
    /\ bmu = 64
    /\ out = [fn |-> "none", status |-> "none", rows |-> <<>>]
    /\ IngestIdle
    /\ KeplerIdle
    /\ OrbitsIdle
    /\ RaceIdle
    /\ FrameIdle
    /\ ElementsIdle
    /\ SolverIdle
    /\ ClassesIdle
    /\ JobsIdle
    /\ ObserversIdle

DoCartesianToKeplerianBatch ==
    /\ out.fn = "none"
    /\ LET r == CartesianToKeplerianBatch(rows, epochs, bmu)
       IN  out' = [fn |-> "cartesian_to_keplerian", status |-> r.status, rows |-> r.rows]
    /\ UNCHANGED <<rows, epochs, bmu, ingestVars, keplerVars, orbitsVars, raceVars, frameVars, elementVars, solverVars, classVars, jobVars, observerVars>>

DoKeplerianToCartesianBatch ==
    /\ out.fn = "none"
    /\ LET r == KeplerianToCartesianBatch(KeplerianRows, bmu, MaxIter, 0)
       IN  out' = [fn |-> "keplerian_to_cartesian", status |-> r.status, rows |-> r.rows]
    /\ UNCHANGED <<rows, epochs, bmu, ingestVars, keplerVars, orbitsVars, raceVars, frameVars, elementVars, solverVars, classVars, jobVars, observerVars>>

DoCartesianToCometaryBatch ==
    /\ out.fn = "none"
    /\ LET r == CartesianToCometaryBatch(rows, epochs, bmu)
       IN  out' = [fn |-> "cartesian_to_cometary", status |-> r.status, rows |-> r.rows]
    /\ UNCHANGED <<rows, epochs, bmu, ingestVars, keplerVars, orbitsVars, raceVars, frameVars, elementVars, solverVars, classVars, jobVars, observerVars>>

DoCometaryToCartesianBatch ==
    /\ out.fn = "none"
    /\ LET r == CometaryToCartesianBatch(CometaryRows, epochs, bmu, MaxIter, 0)
       IN  out' = [fn |-> "cometary_to_cartesian", status |-> r.status, rows |-> r.rows]
    /\ UNCHANGED <<rows, epochs, bmu, ingestVars, keplerVars, orbitsVars, raceVars, frameVars, elementVars, solverVars, classVars, jobVars, observerVars>>

NextBatch ==
    \/ DoCartesianToKeplerianBatch
    \/ DoKeplerianToCartesianBatch
    \/ DoCartesianToCometaryBatch
    \/ DoCometaryToCartesianBatch

SpecBatch == InitBatch /\ [][NextBatch]_vars

\* the single-element converter of the batched converter fn applied to row i
SingleElement(fn, i) ==
    CASE fn = "cartesian_to_keplerian" -> CartesianToKeplerian(rows[i], epochs[i], bmu)
      [] fn = "keplerian_to_cartesian" -> KeplerianToCartesian(KeplerianRows[i], bmu, MaxIter, 0)
      [] fn = "cartesian_to_cometary" -> CartesianToCometary(rows[i], epochs[i], bmu)
      [] fn = "cometary_to_cartesian" -> CometaryToCartesian(CometaryRows[i], epochs[i], bmu, MaxIter, 0)

\* C9: every batched converter succeeds on every input of N rows and returns
\* N rows, row i being the single-element converter applied to input row i.
C9_BatchAppliesPerRow ==
    out.fn # "none" =>
        /\ out.status = "ok"
        /\ Len(out.rows) = Len(rows)
        /\ \A i \in 1 .. Len(rows) : out.rows[i] = SingleElement(out.fn, i)

---------------------------------------------------------------------------
(* orbits.py: the Orbits object and its lazily derived representations *)

\* the number of accesses a behaviour makes
MaxAccess == 4

Representations == {"cartesian", "spherical", "keplerian"}

\* Python's None
None == [id |-> 0, rep |-> "None", src |-> "None"]

\* transform_coordinates(coords, representation_out): a new coordinates
\* object of the target representation, computed from coords
TransformCoordinates(coords_, representation_out, id) ==
    [id |-> id, rep |-> representation_out, src |-> coords_.rep]

\* an access that transforms and returns the result without keeping it
MemoizeNot(s, rep, obj) == s

\* self._<rep> = obj
Memoize(s, rep, obj) == [s EXCEPT ![rep] = obj]

\* Orbits.__init__(coordinates, classes): a deep copy of the coordinates given
InitOrbits ==
    /\ origin \in Representations
    /\ \E classes \in {"None", "given"} :
         self = [[cartesian |-> None, spherical |-> None,
                  keplerian |-> None, classes |-> classes]
                     EXCEPT ![origin] = [id |-> 1, rep |-> origin, src |-> "caller"]]
    /\ transforms = <<>>
    /\ returned = <<>>
    /\ IngestIdle
    /\ KeplerIdle
    /\ BatchIdle
    /\ RaceIdle
    /\ FrameIdle
    /\ ElementsIdle
    /\ SolverIdle
    /\ ClassesIdle
    /\ JobsIdle
    /\ ObserversIdle

\* the body of a property: target is the representation read, first and
\* second the representations it is derived from, in the order tried.
\* The result is the object, the calls and the value returned.
Property(s, calls, target, first, second) ==
    LET id == Len(calls) + 2
        derived ==
            IF s[target] # None THEN [s |-> s, calls |-> calls]
            ELSE IF s[first] # None
            THEN [s |-> Memoize(s, target, TransformCoordinates(s[first], target, id)),
                  calls |-> Append(calls, [src |-> first, target |-> target])]
            ELSE IF s[second] # None
            THEN [s |-> Memoize(s, target, TransformCoordinates(s[second], target, id)),
                  calls |-> Append(calls, [src |-> second, target |-> target])]
            ELSE [s |-> s, calls |-> calls]
        value ==
            IF s[target] # None THEN s[target]
            ELSE IF s[first] # None THEN TransformCoordinates(s[first], target, id)
            ELSE IF s[second] # None THEN TransformCoordinates(s[second], target, id)
            ELSE None
    IN  [s |-> derived.s, calls |-> derived.calls, value |-> value]

\* Orbits.cartesian
Cartesian(s, calls) == Property(s, calls, "cartesian", "keplerian", "spherical")

\* Orbits.spherical
Spherical(s, calls) == Property(s, calls, "spherical", "cartesian", "keplerian")

\* Orbits.keplerian
Keplerian(s, calls) == Property(s, calls, "keplerian", "cartesian", "spherical")

AccessCartesian ==
    /\ origin # "none"
    /\ Len(returned) < MaxAccess
    /\ LET r == Cartesian(self, transforms)
       IN  /\ self' = r.s
           /\ transforms' = r.calls
           /\ returned' = Append(returned, [rep |-> "cartesian", obj |-> r.value])
    /\ UNCHANGED <<origin, ingestVars, keplerVars, batchVars, raceVars, frameVars, elementVars, solverVars, classVars, jobVars, observerVars>>

AccessSpherical ==
    /\ origin # "none"
    /\ Len(returned) < MaxAccess
    /\ LET r == Spherical(self, transforms)
       IN  /\ self' = r.s
           /\ transforms' = r.calls
           /\ returned' = Append(returned, [rep |-> "spherical", obj |-> r.value])
    /\ UNCHANGED <<origin, ingestVars, keplerVars, batchVars, raceVars, frameVars, elementVars, solverVars, classVars, jobVars, observerVars>>

AccessKeplerian ==
    /\ origin # "none"
    /\ Len(returned) < MaxAccess
    /\ LET r == Keplerian(self, transforms)
       IN  /\ self' = r.s
           /\ transforms' = r.calls
           /\ returned' = Append(returned, [rep |-> "keplerian", obj |-> r.value])
    /\ UNCHANGED <<origin, ingestVars, keplerVars, batchVars, raceVars, frameVars, elementVars, solverVars, classVars, jobVars, observerVars>>

\* the reads of Orbits.classes and the to_df calls a behaviour makes
MaxReads == 2

\* calc_orbit_class(keplerian): the classes of the orbits, an array
CalcOrbitClass(keplerian) == "computed"

\* Orbits.classes: the classes are computed from self.keplerian when
\* self._classes is None, and self._classes is returned
AccessClasses ==
    /\ origin # "none"
    /\ Len(observed) < MaxReads
    /\ IF self.classes = "None"
       THEN /\ Len(returned) < MaxAccess
            /\ LET r == Keplerian(self, transforms)
               IN  /\ self' = [r.s EXCEPT !.classes = CalcOrbitClass(r.value)]
                   /\ transforms' = r.calls
                   /\ returned' = Append(returned, [rep |-> "keplerian", obj |-> r.value])
            /\ classCalls' = classCalls + 1
       ELSE UNCHANGED <<self, transforms, returned, classCalls>>
    /\ observed' = Append(observed, [op |-> "classes", value |-> self'.classes,
                                     class_column |-> FALSE,
                                     calls |-> classCalls' - classCalls])
    /\ UNCHANGED <<origin, ingestVars, keplerVars, batchVars, raceVars, frameVars, elementVars, solverVars, jobVars, observerVars>>

\* the 'class' column is inserted whatever self._classes is
ClassColumnAlways(s) == TRUE

\* if self._classes is not None: df.insert(len(df.columns), "class", self.classes)
ClassColumn(s) == s.classes # "None"

\* Orbits.to_df(time_scale, coordinate_type): the data frame of the
\* representation asked for, with the class column if there are classes
ToDf ==
    /\ origin # "none"
    /\ Len(observed) < MaxReads
    /\ Len(returned) < MaxAccess
    /\ classCalls' = classCalls
    /\ \E coordinate_type \in Representations :
         LET r == CASE coordinate_type = "cartesian" -> Cartesian(self, transforms)
                    [] coordinate_type = "keplerian" -> Keplerian(self, transforms)
                    [] coordinate_type = "spherical" -> Spherical(self, transforms)
         IN  /\ self' = r.s
             /\ transforms' = r.calls
             /\ returned' = Append(returned, [rep |-> coordinate_type, obj |-> r.value])
             /\ observed' = Append(observed, [op |-> "to_df", value |-> r.s.classes,
                                              class_column |-> ClassColumn(r.s),
                                              calls |-> classCalls' - classCalls])
    /\ UNCHANGED <<origin, ingestVars, keplerVars, batchVars, raceVars, frameVars, elementVars, solverVars, jobVars, observerVars>>

NextOrbits ==
    \/ AccessCartesian
    \/ AccessSpherical
    \/ AccessKeplerian
    \/ AccessClasses
    \/ ToDf

SpecOrbits == InitOrbits /\ [][NextOrbits]_vars

\* C10: a transform is run only for a representation that has been accessed,
\* at most once per target representation and never for the representation
\* the object was constructed from, and every access of a representation
\* returns the object its first access returned.
C10_LazyMemoized ==
    origin # "none" =>
        /\ \A k \in 1 .. Len(transforms) :
             /\ \E j \in 1 .. Len(returned) : returned[j].rep = transforms[k].target
             /\ transforms[k].target # origin
             /\ \A j \in 1 .. Len(transforms) :
                  transforms[j].target = transforms[k].target => j = k
        /\ \A i, j \in 1 .. Len(returned) :
             returned[i].rep = returned[j].rep => returned[i].obj = returned[j].obj

\* both other representations have been derived and one of them read again
C10_Witness ==
    /\ origin # "none"
    /\ Len(transforms) = 2
    /\ \E i, j \in 1 .. Len(returned) :
         /\ i < j
         /\ returned[i].rep = returned[j].rep
         /\ returned[i].rep # origin
         /\ returned[i].obj # None

\* C30: calc_orbit_class is called at most once and every read of
\* Orbits.classes returns the classes; no to_df call makes that call, and
\* its output has the 'class' column exactly when classes were given to the
\* constructor or Orbits.classes was read before it.
C30_ClassesOnceToDfNever ==
    origin # "none" =>
        /\ classCalls <= 1
        /\ \A k \in 1 .. Len(observed) :
              observed[k].op = "classes" =>
                  /\ observed[k].value # "None"
                  /\ observed[k].value = self.classes
        /\ \A k \in 1 .. Len(observed) :
              observed[k].op = "to_df" =>
                  /\ observed[k].calls = 0
                  /\ observed[k].class_column <=>
                        \/ self.classes = "given"
                        \/ \E j \in 1 .. k - 1 : observed[j].op = "classes"

\* classes computed by a read, then a to_df call whose output has the column
C30_Witness ==
    /\ origin # "none"
    /\ classCalls = 1
    /\ Len(observed) = 2
    /\ observed[1].op = "classes" /\ observed[1].calls = 1
    /\ observed[2].op = "to_df" /\ observed[2].class_column

\* C26: every call of transform_coordinates an Orbits object makes is applied
\* to the representation the object was constructed from, whatever the order
\* of the accesses, and each derived representation is computed by one call.
C26_DerivedFromConstructed ==
    /\ \A k \in 1 .. Len(transforms) : transforms[k].src = origin
    /\ \A k, l \in 1 .. Len(transforms) :
          transforms[k].target = transforms[l].target => k = l

---------------------------------------------------------------------------
(* orbits.py: two readers of one Orbits object inside the same property *)

Readers == {1, 2}

\* the representations a property derives its own from, in the order tried
Sources(rep) ==
    CASE rep = "cartesian" -> <<"keplerian", "spherical">>
      [] rep = "spherical" -> <<"cartesian", "keplerian">>
      [] rep = "keplerian" -> <<"cartesian", "spherical">>

\* what a coordinates object holds, whichever object it is
ObjValue(obj) == [rep |-> obj.rep, src |-> obj.src]

\* a reader about to enter the property
Entering == [at |-> "check", src |-> "None", local |-> None, got |-> None]

\* An Orbits object, as constructed or after one access of the
\* representation that is not raced for, and two readers entering the
\* property of a representation that is not cached
InitRace ==
    /\ origin \in Representations
    /\ raced \in Representations \ {origin}
    /\ LET made == [[cartesian |-> None, spherical |-> None,
                     keplerian |-> None, classes |-> "None"]
                        EXCEPT ![origin] = [id |-> 1, rep |-> origin, src |-> "caller"]]
           other == CHOOSE rep \in Representations : rep # origin /\ rep # raced
           read  == Property(made, <<>>, other, Sources(other)[1], Sources(other)[2])
       IN  \/ self = made /\ transforms = <<>>
           \/ self = read.s /\ transforms = read.calls
    /\ returned = <<>>
    /\ readers = [r \in Readers |-> Entering]
    /\ IngestIdle
    /\ KeplerIdle
    /\ BatchIdle
    /\ FrameIdle
    /\ ElementsIdle
    /\ SolverIdle
    /\ ClassesIdle
    /\ JobsIdle
    /\ ObserversIdle

\* if self._<raced> is None:
ReaderCheck(r) ==
    /\ raced # "none"
    /\ readers[r].at = "check"
    /\ readers' = [readers EXCEPT ![r].at =
                      IF self[raced] = None THEN "pick" ELSE "return"]
    /\ UNCHANGED <<origin, self, transforms, returned, raced>>
    /\ UNCHANGED <<ingestVars, keplerVars, batchVars, frameVars, elementVars, solverVars, classVars, jobVars, observerVars>>

\* if self._<first> is not None: ... elif self._<second> is not None: ...
ReaderPick(r) ==
    /\ raced # "none"
    /\ readers[r].at = "pick"
    /\ LET first == Sources(raced)[1]
           second == Sources(raced)[2]
       IN  readers' =
             IF self[first] # None
             THEN [readers EXCEPT ![r].at = "compute", ![r].src = first]
             ELSE IF self[second] # None
             THEN [readers EXCEPT ![r].at = "compute", ![r].src = second]
             ELSE [readers EXCEPT ![r].at = "return"]
    /\ UNCHANGED <<origin, self, transforms, returned, raced>>
    /\ UNCHANGED <<ingestVars, keplerVars, batchVars, frameVars, elementVars, solverVars, classVars, jobVars, observerVars>>

\* transform_coordinates(self._<src>, "<raced>")
ReaderCompute(r) ==
    /\ raced # "none"
    /\ readers[r].at = "compute"
    /\ readers' = [readers EXCEPT
                      ![r].at = "store",
                      ![r].local = TransformCoordinates(self[readers[r].src], raced,
                                                        Len(transforms) + 2)]
    /\ transforms' = Append(transforms, [src |-> readers[r].src, target |-> raced])
    /\ UNCHANGED <<origin, self, returned, raced>>
    /\ UNCHANGED <<ingestVars, keplerVars, batchVars, frameVars, elementVars, solverVars, classVars, jobVars, observerVars>>

\* self._<raced> = ...
ReaderStore(r) ==
    /\ raced # "none"
    /\ readers[r].at = "store"
    /\ self' = Memoize(self, raced, readers[r].local)
    /\ readers' = [readers EXCEPT ![r].at = "return"]
    /\ UNCHANGED <<origin, transforms, returned, raced>>
    /\ UNCHANGED <<ingestVars, keplerVars, batchVars, frameVars, elementVars, solverVars, classVars, jobVars, observerVars>>

\* return self._<raced>
ReaderReturn(r) ==
    /\ raced # "none"
    /\ readers[r].at = "return"
    /\ readers' = [readers EXCEPT ![r].at = "done", ![r].got = self[raced]]
    /\ UNCHANGED <<origin, self, transforms, returned, raced>>
    /\ UNCHANGED <<ingestVars, keplerVars, batchVars, frameVars, elementVars, solverVars, classVars, jobVars, observerVars>>

NextRace ==
    \E r \in Readers :
        \/ ReaderCheck(r)
        \/ ReaderPick(r)
        \/ ReaderCompute(r)
        \/ ReaderStore(r)
        \/ ReaderReturn(r)

SpecRace == InitRace /\ [][NextRace]_vars

\* what one access alone would have returned for the raced representation
SequentialAccess ==
    Property([self EXCEPT ![raced] = None], <<>>, raced,
             Sources(raced)[1], Sources(raced)[2]).value

\* C11: under every interleaving of the check, compute and store steps of
\* two readers of a representation that is not cached, both readers obtain
\* equal values, and the value left in the cache is the value one access
\* alone would have produced.
C11_RacedReadersAgree ==
    raced # "none" =>
        /\ \A r \in Readers :
             readers[r].at = "done" =>
                ObjValue(readers[r].got) = ObjValue(SequentialAccess)
        /\ \A r1, r2 \in Readers :
             (readers[r1].at = "done" /\ readers[r2].at = "done") =>
                ObjValue(readers[r1].got) = ObjValue(readers[r2].got)
        /\ self[raced] # None => ObjValue(self[raced]) = ObjValue(SequentialAccess)
        /\ (\A r \in Readers : readers[r].at = "done") => self[raced] # None

\* both readers computed, and the first one returned the object the second
\* one stored over its own
C11_Witness ==
    /\ raced # "none"
    /\ \A r \in Readers : readers[r].at = "done" /\ readers[r].local # None
    /\ readers[1].local.id # readers[2].local.id
    /\ readers[1].got.id = readers[2].local.id

---------------------------------------------------------------------------
(* cartesian.py: the matrices of the frame rotations *)

\* f[0] + ... + f[5] of a function f on the six dimensions
SumDims(f) == f[0] + f[1] + f[2] + f[3] + f[4] + f[5]

\* c.TRANSFORM_EQ2EC: the rotation about the x-axis by the obliquity of the
\* ecliptic, the obliquity being a quarter turn in the model
ConstantsTransformEq2Ec == <<<<1, 0, 0>>, <<0, 0, 1>>, <<0, -1, 0>>>>

\* np.zeros((6, 6)) with the 3 x 3 matrix m set as both diagonal blocks
Blocks(m) ==
    [i \in Dims |-> [j \in Dims |->
        IF i \div 3 = j \div 3 THEN m[(i % 3) + 1][(j % 3) + 1] ELSE 0]]

\* matrix.T
Transposed(m) == [i \in Dims |-> [j \in Dims |-> m[j][i]]]

TRANSFORM_EQ2EC == Blocks(ConstantsTransformEq2Ec)

TRANSFORM_EC2EQ == Transposed(TRANSFORM_EQ2EC)

\* a matrix that adds the second dimension of each block to the first
AddsYToX == Blocks(<<<<1, 1, 0>>, <<0, 1, 0>>, <<0, 0, 1>>>>)

\* the matrices handed to rotate
Matrices == {TRANSFORM_EQ2EC, TRANSFORM_EC2EQ, AddsYToX}

---------------------------------------------------------------------------
(* coordinates.py, cartesian.py: the construction of a container *)

\* covariances = None
NoCovariances == [none |-> TRUE, masked |-> FALSE, shape |-> <<0, 0, 0>>,
                  data |-> <<>>, mask |-> <<>>]

\* the position of dimension j among the unmasked dimensions of row n
RankUnmasked(c, n, j) == Cardinality({k \in Dims : k < j /\ ~c.mask[n][k]})

\* lines 116-122: zeros, masked on the row and the column of every masked
\* dimension, the unmasked entries filled in order from covariance[n].flatten()
FilledCovariance(c, cv) ==
    [n \in 1 .. c.N |-> [i \in Dims |-> [j \in Dims |->
        IF c.mask[n][i] \/ c.mask[n][j] THEN 0
        ELSE IF cv.shape[2] * cv.shape[3] = 1 THEN cv.data[n][0][0]
        ELSE cv.data[n][RankUnmasked(c, n, i)][RankUnmasked(c, n, j)]]]]

\* Coordinates.__init__ for the six coordinates of CartesianCoordinates: the
\* columns are ingested in order, then the covariances; the result is the
\* container or the exception raised
NewContainer(cols, times, covariances, origin_, frame) ==
    LET c1 == IngestCoordinate(cols[1], 0, NoCoords)
        c2 == IngestCoordinate(cols[2], 1, c1.coords)
        c3 == IngestCoordinate(cols[3], 2, c2.coords)
        c4 == IngestCoordinate(cols[4], 3, c3.coords)
        c5 == IngestCoordinate(cols[5], 4, c4.coords)
        c6 == IngestCoordinate(cols[6], 5, c5.coords)
        raised == c1.raised \/ c2.raised \/ c3.raised \/ c4.raised \/ c5.raised \/ c6.raised
        ing == IF raised \/ covariances.none
               THEN [status |-> "returned", mask |-> <<>>]
               ELSE IngestCovariance(c6.coords, covariances)
        asis == /\ covariances.masked
                /\ covariances.shape[2] = NDim /\ covariances.shape[3] = NDim
    IN  IF raised THEN [status |-> "ValueError", value |-> <<>>]
        ELSE IF ing.status # "returned" THEN [status |-> ing.status, value |-> <<>>]
        ELSE [status |-> "returned",
              value |-> [values |-> c6.coords,
                         covariances |->
                            IF covariances.none THEN NoCovariances
                            ELSE [none |-> FALSE, masked |-> TRUE,
                                  shape |-> <<c6.coords.N, NDim, NDim>>,
                                  data |-> IF asis THEN covariances.data
                                           ELSE FilledCovariance(c6.coords, covariances),
                                  mask |-> ing.mask],
                         times |-> times, origin |-> origin_, frame |-> frame]]

---------------------------------------------------------------------------
(* cartesian.py: CartesianCoordinates.rotate, to_equatorial, to_ecliptic *)

\* 1e-25, the covariances being integers in units of 1e-26
COVARIANCE_ROTATION_TOLERANCE == 10

\* np.ma.dot(self._values, matrix.T), a masked entry counting as 0, followed
\* by coords[self._values.mask] = np.NaN; column k of the result
RotatedColumn(c, matrix, k) ==
    [none |-> FALSE,
     vals |-> [n \in 1 .. c.N |->
                 IF c.mask[n][k] THEN NaN
                 ELSE Num(SumDims([j \in Dims |->
                         (IF c.mask[n][j] THEN 0 ELSE c.data[n][j].v) * matrix[k][j]]))]]

\* matrix @ self._covariances @ matrix.T on the data of the masked array
RotatedCovariance(data, matrix) ==
    [n \in 1 .. Len(data) |-> [i \in Dims |-> [j \in Dims |->
        SumDims([k \in Dims |->
            matrix[i][k] * SumDims([l \in Dims |-> data[n][k][l] * matrix[j][l]])])]]]

\* the elements at or below the tolerance are set to 0
SnappedAtTolerance(x) ==
    IF AbsInt(x) <= COVARIANCE_ROTATION_TOLERANCE THEN 0 ELSE x

\* np.where(np.abs(covariances) < COVARIANCE_ROTATION_TOLERANCE, 0, covariances)
\* for one element
Snapped(x) ==
    IF AbsInt(x) < COVARIANCE_ROTATION_TOLERANCE THEN 0 ELSE x

\* len(covariances[np.abs(covariances) < COVARIANCE_ROTATION_TOLERANCE])
NearZero(data) ==
    Cardinality({<<n, i, j>> \in (1 .. Len(data)) \X Dims \X Dims :
                    AbsInt(data[n][i][j]) < COVARIANCE_ROTATION_TOLERANCE})

\* lines 215-223: the covariances handed to the new container. np.where
\* returns a plain array; without it the product, a masked array, is kept
RotatedCovariances(cv, matrix) ==
    IF cv.none THEN NoCovariances
    ELSE LET rotated == RotatedCovariance(cv.data, matrix)
         IN  IF NearZero(rotated) > 0
             THEN [none |-> FALSE, masked |-> FALSE, shape |-> cv.shape,
                   data |-> [n \in 1 .. Len(rotated) |-> [i \in Dims |-> [j \in Dims |->
                                Snapped(rotated[n][i][j])]]],
                   mask |-> NoMask(Len(rotated))]
             ELSE [none |-> FALSE, masked |-> TRUE, shape |-> cv.shape,
                   data |-> rotated, mask |-> cv.mask]

\* self.rotate(matrix, frame_out): the new container or the exception raised
Rotate(this, matrix, frame_out) ==
    NewContainer([k \in 1 .. NDim |-> RotatedColumn(this.values, matrix, k - 1)],
                 this.times,
                 RotatedCovariances(this.covariances, matrix),
                 this.origin,
                 frame_out)

\* self.to_equatorial() and self.to_ecliptic(): frame_to is the frame asked
\* for, frame_from the other one; a method that reaches its end returns None
ToFrame(this, frame_from, frame_to, matrix) ==
    IF this.frame = frame_from
    THEN LET r == Rotate(this, matrix, frame_to)
         IN  [status |-> r.status, same |-> FALSE, value |-> r.value]
    ELSE IF this.frame = frame_to
    THEN [status |-> "returned", same |-> TRUE, value |-> this]
    ELSE [status |-> "returned None", same |-> FALSE, value |-> <<>>]

ToEquatorial(this) == ToFrame(this, "ecliptic", "equatorial", TRANSFORM_EC2EQ)

ToEcliptic(this) == ToFrame(this, "equatorial", "ecliptic", TRANSFORM_EQ2EC)

---------------------------------------------------------------------------
(* The calls made on one CartesianCoordinates container *)

\* the arrays x, y, z, vx, vy, vz of a container of N rows: all six given,
\* the position alone, or all six with a NaN in the first row of x
ColumnChoices(N) ==
    {[k \in 1 .. NDim |-> QArray(N, k - 1, {})],
     [k \in 1 .. NDim |-> IF k <= 3 THEN QArray(N, k - 1, {}) ELSE QNone],
     [k \in 1 .. NDim |-> QArray(N, k - 1, IF k = 1 THEN {1} ELSE {})]}

\* element (i, j) of a covariance matrix: diagonal, with every element above
\* the tolerance, or with elements below and at the tolerance
CovarianceElement(kind, i, j) ==
    LET dist == IF i < j THEN j - i ELSE i - j
    IN  CASE dist = 0 -> 40
          [] kind = "diagonal" -> 0
          [] kind = "dense" -> 20
          [] kind = "small" /\ dist = 1 -> -5
          [] kind = "small" /\ dist = 2 -> COVARIANCE_ROTATION_TOLERANCE
          [] OTHER -> 3

\* the covariances offered with N rows: None, or a plain N x D x D array
CovarianceChoices(N) ==
    {NoCovariances}
    \cup {[none |-> FALSE, masked |-> FALSE, shape |-> <<N, D, D>>,
           data |-> [n \in 1 .. N |-> [i \in 0 .. (D - 1) |-> [j \in 0 .. (D - 1) |->
                        CovarianceElement(kind, i, j)]]],
           mask |-> NoMask(N)] :
             D \in {3, 5, NDim}, kind \in {"diagonal", "dense", "small"}}

Frames == {"ecliptic", "equatorial", "galactic"}

Origins == {"heliocentric", "barycentric"}

NoCall == [fn |-> "none", status |-> "none", same |-> FALSE, value |-> <<>>]

\* a container as CartesianCoordinates(...) returned it
InitFrame ==
    /\ \E N \in 1 .. MaxN : \E cols \in ColumnChoices(N) :
       \E covariances \in CovarianceChoices(N) :
       \E origin_ \in Origins : \E frame \in Frames :
          LET made == NewContainer(cols, "times", covariances, origin_, frame)
          IN  /\ made.status = "returned"
              /\ container = made.value
    /\ called = NoCall
    /\ IngestIdle
    /\ KeplerIdle
    /\ BatchIdle
    /\ OrbitsIdle
    /\ RaceIdle
    /\ ElementsIdle
    /\ SolverIdle
    /\ ClassesIdle
    /\ JobsIdle
    /\ ObserversIdle

\* container.rotate(matrix, frame_out)
DoRotate ==
    /\ container # <<>>
    /\ called.fn = "none"
    /\ \E matrix \in Matrices : \E frame_out \in {"ecliptic", "equatorial"} :
         LET r == Rotate(container, matrix, frame_out)
         IN  called' = [fn |-> "rotate", matrix |-> matrix, frame_out |-> frame_out,
                        before |-> container,
                        status |-> r.status, same |-> FALSE, value |-> r.value]
    /\ UNCHANGED container
    /\ UNCHANGED <<ingestVars, keplerVars, batchVars, orbitsVars, raceVars, elementVars, solverVars, classVars, jobVars, observerVars>>

\* container.to_equatorial()
DoToEquatorial ==
    /\ container # <<>>
    /\ called.fn = "none"
    /\ LET r == ToEquatorial(container)
       IN  called' = [fn |-> "to_equatorial", matrix |-> TRANSFORM_EC2EQ,
                      frame_out |-> "equatorial", before |-> container,
                      status |-> r.status, same |-> r.same, value |-> r.value]
    /\ UNCHANGED container
    /\ UNCHANGED <<ingestVars, keplerVars, batchVars, orbitsVars, raceVars, elementVars, solverVars, classVars, jobVars, observerVars>>

\* container.to_ecliptic()
DoToEcliptic ==
    /\ container # <<>>
    /\ called.fn = "none"
    /\ LET r == ToEcliptic(container)
       IN  called' = [fn |-> "to_ecliptic", matrix |-> TRANSFORM_EQ2EC,
                      frame_out |-> "ecliptic", before |-> container,
                      status |-> r.status, same |-> r.same, value |-> r.value]
    /\ UNCHANGED container
    /\ UNCHANGED <<ingestVars, keplerVars, batchVars, orbitsVars, raceVars, elementVars, solverVars, classVars, jobVars, observerVars>>

NextFrame ==
    \/ DoRotate
    \/ DoToEquatorial
    \/ DoToEcliptic

SpecFrame == InitFrame /\ [][NextFrame]_vars

\* C12: rotate returns a new container in frame_out with the times and the
\* origin of the source, leaves the source as it was, and every entry masked
\* in the source is masked in the result.
C12_RotateReturnsNewContainer ==
    called.fn = "rotate" =>
        /\ called.status = "returned"
        /\ ~called.same
        /\ called.value.frame = called.frame_out
        /\ called.value.times = called.before.times
        /\ called.value.origin = called.before.origin
        /\ container = called.before
        /\ \A n \in 1 .. container.values.N : \A j \in Dims :
             container.values.mask[n][j] => called.value.values.mask[n][j]

\* C13: after a rotation of a container with covariances, every element of
\* matrix * Sigma * matrix^T below the tolerance in absolute value is exactly
\* 0 in the result and every other element is the rotated value.
C13_NearZeroSnapped ==
    (called.fn # "none" /\ called.status = "returned" /\ ~called.same
        /\ ~called.before.covariances.none) =>
       LET rotated == RotatedCovariance(called.before.covariances.data, called.matrix)
           result  == called.value.covariances.data
       IN  \A n \in 1 .. Len(rotated) : \A i, j \in Dims :
              /\ AbsInt(rotated[n][i][j]) < COVARIANCE_ROTATION_TOLERANCE
                    => result[n][i][j] = 0
              /\ AbsInt(rotated[n][i][j]) >= COVARIANCE_ROTATION_TOLERANCE
                    => result[n][i][j] = rotated[n][i][j]

\* a rotation whose product has a non-zero element below the tolerance,
\* which is 0 in the result, and an element at the tolerance, which is kept
C13_Witness ==
    /\ called.fn = "rotate" /\ called.status = "returned"
    /\ ~called.before.covariances.none
    /\ LET rotated == RotatedCovariance(called.before.covariances.data, called.matrix)
           result  == called.value.covariances.data
       IN  /\ \E i, j \in Dims :
                /\ rotated[1][i][j] # 0
                /\ AbsInt(rotated[1][i][j]) < COVARIANCE_ROTATION_TOLERANCE
                /\ result[1][i][j] = 0
           /\ \E i, j \in Dims :
                /\ AbsInt(rotated[1][i][j]) = COVARIANCE_ROTATION_TOLERANCE
                /\ result[1][i][j] = rotated[1][i][j]

\* C14: to_equatorial and to_ecliptic fail with an error when the frame of
\* the container is neither 'ecliptic' nor 'equatorial'; they return nothing.
C14_UnknownFrameRaises ==
    (called.fn \in {"to_equatorial", "to_ecliptic"}
        /\ called.before.frame \notin {"ecliptic", "equatorial"}) =>
       called.status \notin {"returned", "returned None"}

---------------------------------------------------------------------------
(* keplerian.py, cometary.py: KeplerianCoordinates, CometaryCoordinates    *)
(*                                                                         *)
(* A container holds one row of elements per orbit; a masked element is    *)
(* written NaN.  A Cartesian row is written with its velocity: the state   *)
(* vector <<p, e, i, raan, ap, nu>> of lines 365-369 of keplerian.py and   *)
(* the mu of the factor sqrt(mu / p) of lines 371-375.                     *)

\* MU = c.MU, the default gravitational parameter
MU == 64

\* r and v of a state vector whose velocity is scaled by sqrt(mu / p); the
\* NaN vector is the same for every mu
WithVelocity(c, mu_) ==
    [conic |-> c, mu |-> IF c = NaNVector(6) THEN NaN ELSE Num(mu_)]

\* transform_covariances_jacobian(coords, covariances, func, **kwargs): per
\* row J S J^T, J the Jacobian of func at the row, written as func and the
\* mu func is evaluated with
TransformCovariancesJacobian(N, func, mu_) ==
    [n \in 1 .. N |-> [jacobian |-> func, mu |-> mu_]]

\* KeplerianCoordinates(a, e, i, raan, ap, M, times, covariances, origin,
\* frame, mu)
KeplerianCoordinates(values, times, covariances, origin_, frame, mu_) ==
    [kind |-> "keplerian", values |-> values, mu |-> mu_,
     covariances |-> covariances, times |-> times,
     origin |-> origin_, frame |-> frame]

\* CometaryCoordinates(q, e, i, raan, ap, tp, times, covariances, origin,
\* frame, mu)
CometaryCoordinates(values, times, covariances, origin_, frame, mu_) ==
    [kind |-> "cometary", values |-> values, mu |-> mu_,
     covariances |-> covariances, times |-> times,
     origin |-> origin_, frame |-> frame]

\* CartesianCoordinates(x, y, z, vx, vy, vz, times, covariances, origin,
\* frame) of state vectors; it carries no mu
CartesianSource(values, times, covariances, origin_, frame) ==
    [kind |-> "cartesian", values |-> values, mu |-> 0,
     covariances |-> covariances, times |-> times,
     origin |-> origin_, frame |-> frame]

\* the columns of the batched result from_cartesian reads as a, e, i, raan,
\* ap, M
FromCartesianColumns == <<0, 2, 3, 4, 5, 6>>

\* KeplerianCoordinates.from_cartesian(cartesian, mu): the columns of
\* cartesian_to_keplerian(values, times, mu), the covariances through
\* _cartesian_to_keplerian6 with t0 and mu, the times, origin and frame of
\* the source
KeplerianCoordinatesFromCartesian(cartesian, mu_) ==
    LET r == CartesianToKeplerianBatch(cartesian.values, cartesian.times, mu_)
    IN  IF r.status # "ok"
        THEN [status |-> r.status]
        ELSE [status |-> "ok"] @@
             KeplerianCoordinates(
                 [n \in 1 .. Len(r.rows) |-> PyTake(r.rows[n], FromCartesianColumns)],
                 cartesian.times,
                 IF cartesian.covariances
                 THEN TransformCovariancesJacobian(Len(cartesian.values),
                                                   "_cartesian_to_keplerian6", mu_)
                 ELSE <<>>,
                 cartesian.origin, cartesian.frame, mu_)

\* CometaryCoordinates.from_cartesian(cartesian, mu): the six columns of
\* cartesian_to_cometary(values, times, mu), the covariances through
\* _cartesian_to_cometary, the times, origin and frame of the source
CometaryCoordinatesFromCartesian(cartesian, mu_) ==
    LET r == CartesianToCometaryBatch(cartesian.values, cartesian.times, mu_)
    IN  IF r.status # "ok"
        THEN [status |-> r.status]
        ELSE [status |-> "ok"] @@
             CometaryCoordinates(
                 r.rows,
                 cartesian.times,
                 IF cartesian.covariances
                 THEN TransformCovariancesJacobian(Len(cartesian.values),
                                                   "_cartesian_to_cometary", mu_)
                 ELSE <<>>,
                 cartesian.origin, cartesian.frame, mu_)

\* KeplerianCoordinates.to_cartesian: keplerian_to_cartesian(values, mu=MU,
\* max_iter=100, tol=1e-15) and transform_covariances_jacobian(values,
\* covariances, _keplerian_to_cartesian), whose mu is the default MU
KeplerianCoordinatesToCartesian(this) ==
    LET r == KeplerianToCartesianBatch(this.values, MU, MaxIter, 0)
    IN  [status |-> r.status,
         values |-> [n \in 1 .. Len(r.rows) |-> WithVelocity(r.rows[n], MU)],
         covariances |->
             IF this.covariances
             THEN TransformCovariancesJacobian(Len(this.values),
                                               "_keplerian_to_cartesian", MU)
             ELSE <<>>,
         times |-> this.times, origin |-> this.origin, frame |-> this.frame]

\* CometaryCoordinates.to_cartesian: cometary_to_cartesian(values, t0=times,
\* mu=self.mu, max_iter=100, tol=1e-15) and transform_covariances_jacobian
\* with the same t0 and mu; times are not handed on
CometaryCoordinatesToCartesian(this) ==
    LET r == CometaryToCartesianBatch(this.values, this.times, this.mu, MaxIter, 0)
    IN  [status |-> r.status,
         values |-> [n \in 1 .. Len(r.rows) |-> WithVelocity(r.rows[n], this.mu)],
         covariances |->
             IF this.covariances
             THEN TransformCovariancesJacobian(Len(this.values),
                                               "_cometary_to_cartesian", this.mu)
             ELSE <<>>,
         times |-> <<>>, origin |-> this.origin, frame |-> this.frame]

\* KeplerianCoordinates.Q: self.a * (1 + self.e)
ApoapsisProperty(this) ==
    [n \in 1 .. Len(this.values) |->
        MulOnePlusE(this.values[n][1], this.values[n][2])]

\* KeplerianCoordinates.P: np.sqrt(4 * np.pi**2 * self.a**3 / self.mu); the
\* root of a negative number is not a number
PeriodProperty(this) ==
    [n \in 1 .. Len(this.values) |->
        LET a == this.values[n][1]
        IN  FSqrt(FDiv(FMul(Num(TwoPi * TwoPi), FMul(a, FMul(a, a))),
                       Num(this.mu)))]

NoConversion == [fn |-> "none", value |-> <<>>]

\* origin and frame of the containers tried
Places == {<<"heliocentric", "ecliptic">>, <<"barycentric", "equatorial">>}

\* the containers tried: one to MaxN orbits of every regime, with the
\* default mu or another one, with or without covariances
InitElements ==
    /\ \E N \in 1 .. MaxN :
         \E vs \in [1 .. N -> BatchVectors] :
           \E m \in Mus(4) :
             \E cv \in BOOLEAN :
               \E pl \in Places :
                 LET ts == [n \in 1 .. N |-> 10 * n]
                 IN  elements \in
                       {KeplerianCoordinates(
                            [n \in 1 .. N |-> CartesianToKeplerian6(vs[n], ts[n], m)],
                            ts, cv, pl[1], pl[2], m),
                        CometaryCoordinates(
                            [n \in 1 .. N |->
                                PyTake(CartesianToKeplerian(vs[n], ts[n], m),
                                       CometaryIndicesByName)],
                            ts, cv, pl[1], pl[2], m),
                        CartesianSource(vs, ts, cv, pl[1], pl[2])}
    /\ converted = NoConversion
    /\ IngestIdle
    /\ KeplerIdle
    /\ BatchIdle
    /\ OrbitsIdle
    /\ RaceIdle
    /\ FrameIdle
    /\ SolverIdle
    /\ ClassesIdle
    /\ JobsIdle
    /\ ObserversIdle

\* elements.to_cartesian() of a KeplerianCoordinates container
DoKeplerianCoordinatesToCartesian ==
    /\ elements.kind = "keplerian"
    /\ converted.fn = "none"
    /\ converted' = [fn |-> "KeplerianCoordinates.to_cartesian",
                     value |-> KeplerianCoordinatesToCartesian(elements)]
    /\ UNCHANGED elements
    /\ UNCHANGED <<ingestVars, keplerVars, batchVars, orbitsVars, raceVars, frameVars, solverVars, classVars, jobVars, observerVars>>

\* elements.to_cartesian() of a CometaryCoordinates container
DoCometaryCoordinatesToCartesian ==
    /\ elements.kind = "cometary"
    /\ converted.fn = "none"
    /\ converted' = [fn |-> "CometaryCoordinates.to_cartesian",
                     value |-> CometaryCoordinatesToCartesian(elements)]
    /\ UNCHANGED elements
    /\ UNCHANGED <<ingestVars, keplerVars, batchVars, orbitsVars, raceVars, frameVars, solverVars, classVars, jobVars, observerVars>>

\* elements.Q
ReadQ ==
    /\ elements.kind = "keplerian"
    /\ converted.fn = "none"
    /\ converted' = [fn |-> "KeplerianCoordinates.Q",
                     value |-> ApoapsisProperty(elements)]
    /\ UNCHANGED elements
    /\ UNCHANGED <<ingestVars, keplerVars, batchVars, orbitsVars, raceVars, frameVars, solverVars, classVars, jobVars, observerVars>>

\* elements.P
ReadP ==
    /\ elements.kind = "keplerian"
    /\ converted.fn = "none"
    /\ converted' = [fn |-> "KeplerianCoordinates.P",
                     value |-> PeriodProperty(elements)]
    /\ UNCHANGED elements
    /\ UNCHANGED <<ingestVars, keplerVars, batchVars, orbitsVars, raceVars, frameVars, solverVars, classVars, jobVars, observerVars>>

\* KeplerianCoordinates.from_cartesian(elements, mu)
DoKeplerianCoordinatesFromCartesian ==
    /\ elements.kind = "cartesian"
    /\ converted.fn = "none"
    /\ \E m \in Mus(4) :
         converted' = [fn |-> "KeplerianCoordinates.from_cartesian", mu |-> m,
                       value |-> KeplerianCoordinatesFromCartesian(elements, m)]
    /\ UNCHANGED elements
    /\ UNCHANGED <<ingestVars, keplerVars, batchVars, orbitsVars, raceVars, frameVars, solverVars, classVars, jobVars, observerVars>>

\* CometaryCoordinates.from_cartesian(elements, mu)
DoCometaryCoordinatesFromCartesian ==
    /\ elements.kind = "cartesian"
    /\ converted.fn = "none"
    /\ \E m \in Mus(4) :
         converted' = [fn |-> "CometaryCoordinates.from_cartesian", mu |-> m,
                       value |-> CometaryCoordinatesFromCartesian(elements, m)]
    /\ UNCHANGED elements
    /\ UNCHANGED <<ingestVars, keplerVars, batchVars, orbitsVars, raceVars, frameVars, solverVars, classVars, jobVars, observerVars>>

NextElements ==
    \/ DoKeplerianCoordinatesToCartesian
    \/ DoCometaryCoordinatesToCartesian
    \/ DoKeplerianCoordinatesFromCartesian
    \/ DoCometaryCoordinatesFromCartesian
    \/ ReadQ
    \/ ReadP

SpecElements == InitElements /\ [][NextElements]_vars

---------------------------------------------------------------------------
(* Claims about the element containers *)

\* C15: KeplerianCoordinates.to_cartesian converts the values and the
\* covariances with the mu of the container: every row is the state vector
\* and velocity _keplerian_to_cartesian gives with that mu, and every
\* covariance is transformed with that mu, as in CometaryCoordinates.
C15_ToCartesianUsesOwnMu ==
    converted.fn = "KeplerianCoordinates.to_cartesian" =>
        /\ converted.value.status = "ok"
        /\ \A n \in 1 .. Len(elements.values) :
              converted.value.values[n] =
                  WithVelocity(KeplerianToCartesian(elements.values[n], elements.mu,
                                                    MaxIter, 0),
                               elements.mu)
        /\ elements.covariances =>
              \A n \in 1 .. Len(elements.values) :
                  converted.value.covariances[n].mu = elements.mu

\* C18: KeplerianCoordinates.Q and KeplerianCoordinates.P are +infinity in
\* every row with e >= 1, and a (1 + e) and the finite period 2 pi
\* sqrt(a^3 / mu) in every row with e < 1.
C18_DerivedRespectRegime ==
    /\ converted.fn = "KeplerianCoordinates.Q" =>
          \A n \in 1 .. Len(elements.values) :
              LET a == elements.values[n][1]
                  e == elements.values[n][2]
              IN  /\ e.v >= One => converted.value[n] = Inf
                  /\ e.v < One => converted.value[n] = MulOnePlusE(a, e)
    /\ converted.fn = "KeplerianCoordinates.P" =>
          \A n \in 1 .. Len(elements.values) :
              LET a == elements.values[n][1]
                  e == elements.values[n][2]
              IN  /\ e.v >= One => converted.value[n] = Inf
                  /\ e.v < One =>
                        /\ IsNum(converted.value[n])
                        /\ converted.value[n] =
                               FDiv(Num(TwoPi), MeanMotion(a, a, e, elements.mu))

---------------------------------------------------------------------------
(* dynamics/kepler.py: the loop of solve_kepler(e, M, max_iter, tol)       *)
(*                                                                         *)
(* The iterate is known by the number of Newton-Raphson steps taken; the   *)
(* residual of Kepler's equation at it is any value of Residuals.          *)

MaxSolverIter == 4

Residuals == 0 .. 3

Tolerances == {1, 2}

\* the loop goes on whatever the number of iterations
GoesOnUnbounded(s) == s.residual >= s.tol

\* the loop condition: the residual is not below tol and fewer than max_iter
\* iterations were made
GoesOn(s) == s.residual >= s.tol /\ s.iter < s.max_iter

InitSolver ==
    /\ \E m \in 0 .. MaxSolverIter, t \in Tolerances, r \in Residuals :
         solver = [pc |-> "loop", max_iter |-> m, tol |-> t, iter |-> 0,
                   residual |-> r]
    /\ IngestIdle
    /\ KeplerIdle
    /\ BatchIdle
    /\ OrbitsIdle
    /\ RaceIdle
    /\ FrameIdle
    /\ ElementsIdle
    /\ ClassesIdle
    /\ JobsIdle
    /\ ObserversIdle

\* one Newton-Raphson iteration
SolverStep ==
    /\ solver.pc = "loop"
    /\ GoesOn(solver)
    /\ \E r \in Residuals :
         solver' = [solver EXCEPT !.iter = @ + 1, !.residual = r]
    /\ UNCHANGED <<ingestVars, keplerVars, batchVars, orbitsVars, raceVars, frameVars, elementVars, classVars, jobVars, observerVars>>

\* the loop ends and the last iterate is returned
SolverReturn ==
    /\ solver.pc = "loop"
    /\ ~GoesOn(solver)
    /\ solver' = [solver EXCEPT !.pc = "returned"]
    /\ UNCHANGED <<ingestVars, keplerVars, batchVars, orbitsVars, raceVars, frameVars, elementVars, classVars, jobVars, observerVars>>

NextSolver ==
    \/ SolverStep
    \/ SolverReturn

\* the loop is a sequential computation: it takes its next step
SpecSolver == InitSolver /\ [][NextSolver]_vars /\ WF_vars(NextSolver)

\* C21: the solver always returns; it makes no iteration once the residual
\* is below tol and never more than max_iter iterations; when it returns,
\* the residual is below tol or max_iter iterations were made, and the
\* iterate returned is the last one.
C21_SolverTerminates ==
    /\ <>(solver.pc = "returned")
    /\ [](solver.iter <= solver.max_iter)
    /\ [](solver.pc = "returned" =>
             solver.residual < solver.tol \/ solver.iter = solver.max_iter)
    /\ [][solver'.iter # solver.iter =>
             /\ solver.residual >= solver.tol
             /\ solver'.iter = solver.iter + 1]_vars
    /\ [][solver'.pc = "returned" =>
             /\ solver'.iter = solver.iter
             /\ solver'.residual = solver.residual]_vars

\* a call that did not converge: max_iter iterations made, the residual
\* still not below tol, the last iterate returned
C21_Witness ==
    /\ solver.pc = "returned"
    /\ solver.max_iter = MaxSolverIter
    /\ solver.iter = solver.max_iter
    /\ solver.residual >= solver.tol

(* what the claims about from_cartesian are read against: the elements of  *)
(* row n of the source by name                                              *)
NamedElements(n, mu_) ==
    LET k == CartesianToKeplerian(elements.values[n], elements.times[n], mu_)
    IN  <<k[1], k[5], k[6], k[7], k[8], k[9]>>

\* C25: KeplerianCoordinates.from_cartesian returns a container whose row k
\* holds a, e, i, raan, ap, M of _cartesian_to_keplerian of row k.
C25_FromCartesianReadsSixElements ==
    converted.fn = "KeplerianCoordinates.from_cartesian" =>
        /\ converted.value.status = "ok"
        /\ Len(converted.value.values) = Len(elements.values)
        /\ \A n \in 1 .. Len(elements.values) :
              converted.value.values[n] = NamedElements(n, converted.mu)

\* C27: every conversion between representations returns a container with
\* the times, the origin and the frame of its source.
C27_ConversionsKeepEpochsAndPlace ==
    converted.fn \in {"KeplerianCoordinates.to_cartesian",
                      "KeplerianCoordinates.from_cartesian",
                      "CometaryCoordinates.to_cartesian",
                      "CometaryCoordinates.from_cartesian"} =>
        /\ converted.value.status = "ok"
        /\ converted.value.times = elements.times
        /\ converted.value.origin = elements.origin
        /\ converted.value.frame = elements.frame


(* JobManifest of thor/taskqueue/jobs.py: a creation time, a job id and two *)
(* lists that grow together. A Python list is an object: the manifests     *)
(* hold the addresses of their lists in the heap, so that two manifests     *)
(* using one list is a state the model can tell from two equal lists. A str *)
(* is [py |-> "str", v |-> <<s>>], a list of str [py |-> "list", v |-> ss]. *)
MaxJobs == 2

MaxAppends == 3

PyStr(s) == [py |-> "str", v |-> <<s>>]

PyList(ss) == [py |-> "list", v |-> ss]

\* the arguments of create: a job id, and the clock at the call
\* (datetime.now(timezone.utc)) on and off a whole second
Creations ==
    {<<PyStr("j1"), [second |-> 1, microsecond |-> 0, tzinfo |-> "utc"]>>,
     <<PyStr("j2"), [second |-> 2, microsecond |-> 250, tzinfo |-> "utc"]>>}

\* the arguments of append: one orbit per task, or a list of orbits
AppendCalls ==
    {[orbit_id |-> PyStr("o1"), task_id |-> PyStr("t1")],
     [orbit_id |-> PyList(<<"o2", "o3">>), task_id |-> PyStr("t2")]}

\* datetime.isoformat: the fraction is written only when microsecond is not
\* 0, the offset only for an aware datetime
IsoformatSeconds(dt) ==
    [seconds |-> dt.second, fraction |-> <<>>,
     offset |-> IF dt.tzinfo = "None" THEN <<>> ELSE <<"+00:00">>]

Isoformat(dt) ==
    [seconds |-> dt.second,
     fraction |-> IF dt.microsecond = 0 THEN <<>> ELSE <<dt.microsecond>>,
     offset |-> IF dt.tzinfo = "None" THEN <<>> ELSE <<"+00:00">>]

\* datetime.fromisoformat: a missing fraction is 0 microseconds, a missing
\* offset a naive datetime
Fromisoformat(text) ==
    [second |-> text.seconds,
     microsecond |-> IF text.fraction = <<>> THEN 0 ELSE text.fraction[1],
     tzinfo |-> IF text.offset = <<>> THEN "None" ELSE "utc"]

\* json.dumps of an id: a str is a JSON string, a list a JSON array
JsonDumps(value) ==
    IF value.py = "str"
    THEN [json |-> "string", v |-> value.v]
    ELSE [json |-> "array", v |-> value.v]

\* json.loads: a JSON string is a str, a JSON array a list
JsonLoads(doc) ==
    IF doc.json = "string" THEN PyStr(doc.v[1]) ELSE PyList(doc.v)

JobManifest(creation_time, job_id, orbit_ids, task_ids) ==
    [creation_time |-> creation_time, job_id |-> job_id,
     orbit_ids |-> orbit_ids, task_ids |-> task_ids]

\* the address of the list a [] expression makes: one not in use
NewListShared(h) == 1

NewList(h) == Len(h) + 1

\* the heap with an empty list at address a
Alloc(h, a) ==
    [k \in 1 .. (IF a > Len(h) THEN a ELSE Len(h)) |-> IF k = a THEN <<>> ELSE h[k]]

\* the document to_str writes for manifest m, its lists read from heap h
JobManifestToStr(m, h) ==
    [job_id |-> JsonDumps(m.job_id),
     creation_time |-> Isoformat(m.creation_time),
     orbit_ids |-> [k \in 1 .. Len(h[m.orbit_ids]) |-> JsonDumps(h[m.orbit_ids][k])],
     task_ids |-> [k \in 1 .. Len(h[m.task_ids]) |-> JsonDumps(h[m.task_ids][k])]]

\* from_str: the manifest built from the document; its lists are new ones
\* and are given by their contents
JobManifestFromStr(data) ==
    LET as_dict ==
            [job_id |-> JsonLoads(data.job_id),
             creation_time |-> Fromisoformat(data.creation_time),
             orbit_ids |-> [k \in 1 .. Len(data.orbit_ids) |-> JsonLoads(data.orbit_ids[k])],
             task_ids |-> [k \in 1 .. Len(data.task_ids) |-> JsonLoads(data.task_ids[k])]]
    IN  JobManifest(as_dict.creation_time, as_dict.job_id,
                    as_dict.orbit_ids, as_dict.task_ids)

RECURSIVE TotalAppends(_)
TotalAppends(log) ==
    IF log = <<>> THEN 0 ELSE Len(Head(log)) + TotalAppends(Tail(log))

InitJobs ==
    /\ manifests = <<>>
    /\ heap = <<>>
    /\ appended = <<>>
    /\ restored = [of |-> 0]
    /\ IngestIdle
    /\ KeplerIdle
    /\ BatchIdle
    /\ OrbitsIdle
    /\ RaceIdle
    /\ FrameIdle
    /\ ElementsIdle
    /\ SolverIdle
    /\ ClassesIdle
    /\ ObserversIdle

\* JobManifest.create(job_id)
DoCreate ==
    /\ restored.of = 0
    /\ Len(manifests) < MaxJobs
    /\ \E c \in Creations :
         LET job_id == c[1]
             now == c[2]
             orbit_ids == NewList(heap)
             h1 == Alloc(heap, orbit_ids)
             task_ids == NewList(h1)
         IN  /\ manifests' = Append(manifests, JobManifest(now, job_id, orbit_ids, task_ids))
             /\ heap' = Alloc(h1, task_ids)
             /\ appended' = Append(appended, <<>>)
    /\ UNCHANGED <<restored, ingestVars, keplerVars, batchVars, orbitsVars, raceVars, frameVars, elementVars, solverVars, classVars, observerVars>>

\* m.append(orbit_id, task_id) on one of the manifests
DoAppend ==
    /\ restored.of = 0
    /\ TotalAppends(appended) < MaxAppends
    /\ \E m \in 1 .. Len(manifests), a \in AppendCalls :
         LET h1 == [heap EXCEPT ![manifests[m].orbit_ids] = Append(@, a.orbit_id)]
         IN  /\ heap' = [h1 EXCEPT ![manifests[m].task_ids] = Append(@, a.task_id)]
             /\ appended' = [appended EXCEPT ![m] = Append(@, a)]
    /\ UNCHANGED <<manifests, restored, ingestVars, keplerVars, batchVars, orbitsVars, raceVars, frameVars, elementVars, solverVars, classVars, observerVars>>

\* JobManifest.from_str(m.to_str()) for one of the manifests
DoFromStr ==
    /\ restored.of = 0
    /\ \E m \in 1 .. Len(manifests) :
         restored' = [of |-> m,
                      manifest |-> JobManifestFromStr(JobManifestToStr(manifests[m], heap))]
    /\ UNCHANGED <<manifests, heap, appended, ingestVars, keplerVars, batchVars, orbitsVars, raceVars, frameVars, elementVars, solverVars, classVars, observerVars>>

NextJobs ==
    \/ DoCreate
    \/ DoAppend
    \/ DoFromStr

SpecJobs == InitJobs /\ [][NextJobs]_vars

\* C23: the manifest from_str makes of what to_str wrote has the job id, the
\* creation time and, element by element and in order, the orbit ids and the
\* task ids of the manifest it was written from.
C23_ManifestRoundTrip ==
    restored.of # 0 =>
        LET m == manifests[restored.of]
            r == restored.manifest
        IN  /\ r.job_id = m.job_id
            /\ r.creation_time = m.creation_time
            /\ r.orbit_ids = heap[m.orbit_ids]
            /\ r.task_ids = heap[m.task_ids]

\* a manifest made on a whole second, with a single orbit and a list of
\* orbits appended, written and read back
C23_Witness ==
    /\ restored.of # 0
    /\ manifests[restored.of].creation_time.microsecond = 0
    /\ Len(restored.manifest.orbit_ids) = 2
    /\ restored.manifest.orbit_ids[1].py = "str"
    /\ restored.manifest.orbit_ids[2].py = "list"

\* C28: the two lists of a manifest have one entry per append call, the k-th
\* entries being the orbit id and the task id of the k-th call, and no list
\* belongs to two manifests.
C28_ListsGrowTogether ==
    /\ \A m \in 1 .. Len(manifests) :
         /\ Len(heap[manifests[m].orbit_ids]) = Len(appended[m])
         /\ Len(heap[manifests[m].task_ids]) = Len(appended[m])
         /\ \A k \in 1 .. Len(appended[m]) :
              /\ heap[manifests[m].orbit_ids][k] = appended[m][k].orbit_id
              /\ heap[manifests[m].task_ids][k] = appended[m][k].task_id
    /\ \A m, n \in 1 .. Len(manifests) :
         m # n =>
             {manifests[m].orbit_ids, manifests[m].task_ids}
                 \cap {manifests[n].orbit_ids, manifests[n].task_ids} = {}

\* two manifests, two appends on the first and none on the second
C28_Witness ==
    /\ Len(manifests) = 2
    /\ Len(appended[1]) = 2
    /\ Len(appended[2]) = 0
    /\ heap[manifests[2].orbit_ids] = <<>>
    /\ appended[1][1] # appended[1][2]


(* Observers.__init__ of thor/observers/observers.py. An observatory code  *)
(* is the integer that orders it among the codes (numpy compares the code   *)
(* strings), a time its MJD. codes is a list or an ndarray, times None, a   *)
(* list of arrays of times or one Time array, coordinates None or a         *)
(* container whose rows are numbered as they were supplied. What the        *)
(* constructor takes from CoordinateMembers and Indexable, which are not    *)
(* part of the sources read, is the _cartesian attribute and the selection  *)
(* of rows by an index array.                                               *)
MaxObs == 3

\* every array of at most n entries of S
ArraysOf(S, n) == UNION {[1 .. k -> S] : k \in 0 .. n}

RECURSIVE Concatenate(_)
\* np.concatenate of a list of arrays
Concatenate(arrays) ==
    IF arrays = <<>> THEN <<>> ELSE Head(arrays) \o Concatenate(Tail(arrays))

Codes == {1, 2}

MJDs == {1, 2}

PyNone == [py |-> "None", v |-> <<>>]

\* the codes argument
CodesArguments ==
    {[py |-> k, v |-> c] : k \in {"list", "ndarray"}, c \in ArraysOf(Codes, MaxObs)}

\* the times argument: None, one Time array (v), or a list of arrays (parts)
TimesArguments ==
    {[py |-> "None", v |-> <<>>, parts |-> <<>>]}
        \cup {[py |-> "Time", v |-> t, parts |-> <<>>] : t \in ArraysOf(MJDs, MaxObs)}
        \cup {[py |-> "list", v |-> <<>>, parts |-> l] :
                 l \in {ll \in ArraysOf(ArraysOf(MJDs, MaxObs), 2) :
                           Len(Concatenate(ll)) <= MaxObs}}

\* the coordinates argument: None, or n rows with or without times of their own
CoordinatesArguments ==
    {PyNone}
        \cup {[py |-> "Coordinates", v |-> [k \in 1 .. Len(t) |-> k], times |-> PyNone] :
                 t \in ArraysOf(MJDs, MaxObs)}
        \cup {[py |-> "Coordinates", v |-> [k \in 1 .. Len(t) |-> k],
               times |-> [py |-> "Time", v |-> t]] : t \in ArraysOf(MJDs, MaxObs)}

\* lines 44-56: the times of the coordinates against the times given
TimesCheck(times, coordinates) ==
    IF coordinates.py = "Coordinates" /\ times.py # "None"
    THEN IF coordinates.times.py # "None"
         THEN IF times.py = "list" THEN "AttributeError"
              ELSE IF coordinates.times.v # times.v THEN "ValueError"
              ELSE "ok"
         ELSE IF times.py = "Time" /\ Len(times.v) # Len(coordinates.v)
              THEN "AssertionError"
              ELSE "ok"
    ELSE "ok"

\* CoordinateMembers.__init__(coordinates, cartesian=True): the rows kept as
\* _cartesian
CoordinateMembersInit(coordinates) == coordinates

\* lines 66-85: one code per observation time
ExpandedCodes(codes, times) ==
    CASE codes.py = "list" /\ times.py = "list" ->
           Concatenate([k \in 1 .. Len(codes.v) |->
                           [i \in 1 .. Len(times.parts[k]) |-> codes.v[k]]])
      [] codes.py = "list" /\ times.py = "Time" ->
           Concatenate([k \in 1 .. Len(codes.v) |->
                           [i \in 1 .. Len(times.v) |-> codes.v[k]]])
      [] OTHER -> codes.v

\* lines 66-85: the observation times in one array
ExpandedTimes(codes, times) ==
    CASE codes.py = "list" /\ times.py = "list" -> Concatenate(times.parts)
      [] codes.py = "list" /\ times.py = "Time" ->
           Concatenate([k \in 1 .. Len(codes.v) |-> times.v])
      [] OTHER -> times.v

\* one of the three cases of lines 68, 75 and 83 applies
CaseApplies(codes, times) ==
    \/ codes.py = "list" /\ times.py = "list"
    \/ codes.py = "list" /\ times.py = "Time"
    \/ codes.py = "ndarray" /\ times.py = "Time"

\* np.lexsort((codes, mjd)): the rows ordered by the last key, mjd, then by
\* codes, rows equal in both left in their order
LexsortCodesFirst(codes_, mjd) ==
    LET Before(j, i) ==
            \/ codes_[j] < codes_[i]
            \/ codes_[j] = codes_[i] /\ mjd[j] < mjd[i]
            \/ codes_[j] = codes_[i] /\ mjd[j] = mjd[i] /\ j < i
    IN  [k \in 1 .. Len(codes_) |->
            CHOOSE i \in 1 .. Len(codes_) :
                Cardinality({j \in 1 .. Len(codes_) : Before(j, i)}) = k - 1]

Lexsort(codes_, mjd) ==
    LET Before(j, i) ==
            \/ mjd[j] < mjd[i]
            \/ mjd[j] = mjd[i] /\ codes_[j] < codes_[i]
            \/ mjd[j] = mjd[i] /\ codes_[j] = codes_[i] /\ j < i
    IN  [k \in 1 .. Len(codes_) |->
            CHOOSE i \in 1 .. Len(codes_) :
                Cardinality({j \in 1 .. Len(codes_) : Before(j, i)}) = k - 1]

\* array[sorted_ind] of a numpy array or a Time array
TakeRows(array, ind) == [k \in 1 .. Len(ind) |-> array[ind[k]]]

\* coordinates[sorted_ind]: Indexable.__getitem__ with an index array
IndexableGetItem(coordinates, ind) ==
    [coordinates EXCEPT !.v = [k \in 1 .. Len(ind) |-> coordinates.v[ind[k]]]]

Raised(exception) ==
    [status |-> exception, codes |-> <<>>, times |-> <<>>, cartesian |-> PyNone,
     before |-> [codes |-> <<>>, times |-> <<>>, cartesian |-> PyNone]]

\* Observers(codes, times, coordinates); before holds the arrays of line 87
ObserversInit(codes, times, coordinates) ==
    LET _cartesian == CoordinateMembersInit(coordinates)
        _codes == ExpandedCodes(codes, times)
        _times == ExpandedTimes(codes, times)
        sorted_ind == Lexsort(_codes, _times)
    IN  IF TimesCheck(times, coordinates) # "ok"
        THEN Raised(TimesCheck(times, coordinates))
        ELSE IF codes.py = "list" /\ times.py = "list" /\ Len(codes.v) # Len(times.parts)
        THEN Raised("AssertionError")
        ELSE IF ~CaseApplies(codes, times)
        THEN Raised("AttributeError")
        ELSE IF Len(_codes) # Len(_times)
        THEN Raised("AssertionError")
        ELSE IF _cartesian.py # "None" /\ Len(_codes) # Len(_cartesian.v)
        THEN Raised("AssertionError")
        ELSE [status |-> "ok",
              codes |-> TakeRows(_codes, sorted_ind),
              times |-> TakeRows(_times, sorted_ind),
              cartesian |-> IF _cartesian.py # "None"
                            THEN IndexableGetItem(_cartesian, sorted_ind)
                            ELSE _cartesian,
              before |-> [codes |-> _codes, times |-> _times, cartesian |-> _cartesian]]

InitObservers ==
    /\ \E codes \in CodesArguments, times \in TimesArguments,
          coordinates \in CoordinatesArguments :
         args = [codes |-> codes, times |-> times, coordinates |-> coordinates]
    /\ observers = <<>>
    /\ IngestIdle
    /\ KeplerIdle
    /\ BatchIdle
    /\ OrbitsIdle
    /\ RaceIdle
    /\ FrameIdle
    /\ ElementsIdle
    /\ SolverIdle
    /\ ClassesIdle
    /\ JobsIdle

DoObserversInit ==
    /\ observers = <<>>
    /\ observers' = ObserversInit(args.codes, args.times, args.coordinates)
    /\ UNCHANGED <<args, ingestVars, keplerVars, batchVars, orbitsVars, raceVars, frameVars, elementVars, solverVars, classVars, jobVars>>

NextObservers == DoObserversInit

SpecObservers == InitObservers /\ [][NextObservers]_vars

\* observation k of an Observers state: its code, its time and its row
Observation(o, k) ==
    <<o.codes[k], o.times[k], IF o.cartesian.py # "None" THEN o.cartesian.v[k] ELSE 0>>

\* C29: a constructed Observers has as many codes as times (and as rows of
\* the supplied coordinates), its times never decrease, equal times are in
\* the order of their codes, and its observations are the observations before
\* the sort, each as many times as before: one reordering gives its codes,
\* its times and its rows.
C29_SortedTogether ==
    (observers # <<>> /\ observers.status = "ok") =>
        LET n == Len(observers.codes)
            given == observers.cartesian.py # "None"
        IN  /\ Len(observers.times) = n
            /\ given => Len(observers.cartesian.v) = n
            /\ Len(observers.before.codes) = n
            /\ \A k \in 1 .. n - 1 :
                 \/ observers.times[k] < observers.times[k + 1]
                 \/ /\ observers.times[k] = observers.times[k + 1]
                    /\ observers.codes[k] <= observers.codes[k + 1]
            /\ \A k \in 1 .. n :
                 Cardinality({j \in 1 .. n : Observation(observers, j) = Observation(observers, k)})
                     = Cardinality({j \in 1 .. n :
                                       Observation(observers.before, j) = Observation(observers, k)})

\* three observations with coordinates, supplied out of order in time and,
\* at equal times, out of order in code
C29_Witness ==
    /\ observers # <<>>
    /\ observers.status = "ok"
    /\ observers.cartesian.py # "None"
    /\ observers.before.times = <<2, 1, 1>>
    /\ observers.before.codes = <<1, 2, 1>>
    /\ observers.cartesian.v = <<3, 2, 1>>

=============================================================================
